------------------------- MODULE SoundManagerProofs -------------------------
(***************************************************************************)
(* The invariants of SoundManager for any numbers of files, callers and     *)
(* channels and any initial size and growth of the vector.                  *)
(***************************************************************************)
EXTENDS SoundManager, SequenceTheorems, TLAPS

-----------------------------------------------------------------------------
(* The vector of instances                                                  *)

\* What the vector needs of itself: the indices that were returned are among
\* those in use, the vector has room for them, and no key has two.
VectorInv ==
  /\ capacity \in Nat
  /\ slots \in [0 .. capacity - 1 -> Key \cup {NoKey}]
  /\ nextSoundInstanceIndex \in 0 .. capacity - 1
  /\ issued \in [Key -> SUBSET Nat]
  /\ SlotsUsedInOrder
  /\ IndicesStable
  /\ OncePerKey

\* IncrementNextSoundInstanceIndex: there is room for one more, and what was
\* in the vector is where it was.
LEMMA GrownHasRoom ==
  ASSUME capacity \in Nat, nextSoundInstanceIndex \in 0 .. capacity - 1
  PROVE  /\ Grown \in Nat /\ Grown >= capacity
         /\ nextSoundInstanceIndex + 1 \in 1 .. Grown - 1
BY SoundAssumption DEF Grown

LEMMA CopiedKeeps ==
  ASSUME capacity \in Nat, NEW n \in Nat, n >= capacity,
         slots \in [0 .. capacity - 1 -> Key \cup {NoKey}]
  PROVE  /\ Copied(n) \in [0 .. n - 1 -> Key \cup {NoKey}]
         /\ \A k \in 0 .. capacity - 1 : Copied(n)[k] = slots[k]
         /\ \A k \in capacity .. n - 1 : Copied(n)[k] = NoKey
BY DEF Copied

LEMMA InitVector == Init => VectorInv
BY SoundAssumption
   DEF Init, VectorInv, SlotsUsedInOrder, IndicesStable, OncePerKey

\* CreateSound, when it finds the sound.
LEMMA ReuseKeepsVector ==
  ASSUME VectorInv, NEW key \in Key, ReuseSound(key)
  PROVE  VectorInv'
<1> USE DEF VectorInv
<1>1. PICK k \in Found(key) : Issue(key, k)
  BY DEF ReuseSound
<1>2. k \in 0 .. capacity - 1 /\ slots[k] = key
  BY <1>1 DEF Found
<1>3. k \in 1 .. nextSoundInstanceIndex
  BY <1>2, SoundAssumption DEF SlotsUsedInOrder
<1>4. /\ issued' \in [Key -> SUBSET Nat]
      /\ \A y \in Key : issued'[y] = IF y = key THEN issued[y] \cup {k} ELSE issued[y]
  <2>1. k \in Nat
    BY <1>2
  <2>2. issued' = [issued EXCEPT ![key] = issued[key] \cup {k}]
    BY <1>1 DEF Issue
  <2>3. issued[key] \cup {k} \in SUBSET Nat
    BY <2>1
  <2> QED
    BY <2>2, <2>3
<1>5. UNCHANGED vector
  BY DEF ReuseSound
<1>6. IndicesStable'
  BY <1>2, <1>3, <1>4, <1>5 DEF IndicesStable, vector
<1>7. SlotsUsedInOrder' /\ OncePerKey'
  BY <1>5 DEF SlotsUsedInOrder, OncePerKey, vector
<1> QED
  BY <1>4, <1>5, <1>6, <1>7 DEF vector

\* CreateSound, when it fills in a new instance, loaded or not.
LEMMA LoadKeepsVector ==
  ASSUME VectorInv, NEW key \in Key, LoadSound(key)
  PROVE  VectorInv'
<1> USE DEF VectorInv
<1> DEFINE new == nextSoundInstanceIndex + 1
<1>1. /\ Grown \in Nat /\ Grown >= capacity
      /\ new \in 1 .. Grown - 1
  BY GrownHasRoom
<1>2. /\ Copied(Grown) \in [0 .. Grown - 1 -> Key \cup {NoKey}]
      /\ \A k \in 0 .. capacity - 1 : Copied(Grown)[k] = slots[k]
      /\ \A k \in capacity .. Grown - 1 : Copied(Grown)[k] = NoKey
  BY <1>1, CopiedKeeps
<1>3. /\ capacity' = Grown /\ nextSoundInstanceIndex' = new
      /\ slots' = [Copied(Grown) EXCEPT ![new] = key]
  BY DEF LoadSound
<1>4. /\ slots' \in [0 .. Grown - 1 -> Key \cup {NoKey}]
      /\ slots'[new] = key
      /\ \A k \in 0 .. Grown - 1 :
           k # new => slots'[k] = IF k < capacity THEN slots[k] ELSE NoKey
  BY <1>1, <1>2, <1>3
<1>5. /\ issued' \in [Key -> SUBSET Nat]
      /\ \A y \in Key : issued'[y] \subseteq issued[y] \cup (IF y = key THEN {new} ELSE {})
  <2>1. CASE Issue(key, new)
    BY <1>1, <2>1 DEF Issue
  <2>2. CASE UNCHANGED issued
    BY <2>2
  <2> QED
    BY <2>1, <2>2 DEF LoadSound
<1>6. loaded' \subseteq loaded \cup {new}
  BY DEF LoadSound
<1>7. SlotsUsedInOrder'
  <2>1. \A k \in 0 .. Grown - 1 : slots'[k] # NoKey <=> k \in 1 .. new
    BY <1>1, <1>4, SoundAssumption DEF SlotsUsedInOrder
  <2>2. loaded' \subseteq 1 .. new
    BY <1>1, <1>6 DEF SlotsUsedInOrder
  <2> QED
    BY <1>3, <2>1, <2>2 DEF SlotsUsedInOrder
<1>8. IndicesStable'
  <2> SUFFICES ASSUME NEW y \in Key, NEW k \in issued'[y]
               PROVE  k \in 1 .. Grown - 1 /\ slots'[k] = y
    BY <1>3 DEF IndicesStable
  <2>1. CASE k \in issued[y]
    <3>1. k \in 1 .. capacity - 1 /\ slots[k] = y
      BY <2>1 DEF IndicesStable
    <3>2. k \in 1 .. nextSoundInstanceIndex
      BY <3>1, SoundAssumption DEF SlotsUsedInOrder
    <3>3. k \in 0 .. Grown - 1 /\ k # new /\ k < capacity
      BY <1>1, <3>1, <3>2
    <3> QED
      BY <1>1, <1>4, <3>1, <3>3
  <2>2. CASE y = key /\ k = new
    BY <1>1, <1>4, <2>2
  <2> QED
    BY <1>5, <2>1, <2>2
<1>9. OncePerKey'
  <2>1. \A k \in 1 .. nextSoundInstanceIndex :
          k \in 0 .. Grown - 1 /\ k # new /\ k < capacity /\ slots[k] # key
    BY <1>1 DEF LoadSound, Found
  <2>2. \A k \in 1 .. nextSoundInstanceIndex : slots'[k] = slots[k] /\ slots'[k] # key
    BY <1>4, <2>1
  <2>3. \A k \in 1 .. new : k = new \/ k \in 1 .. nextSoundInstanceIndex
    BY <1>1
  <2> QED
    BY <1>3, <1>4, <2>2, <2>3 DEF OncePerKey
<1> QED
  BY <1>1, <1>3, <1>4, <1>5, <1>7, <1>8, <1>9

LEMMA StepVector == VectorInv /\ [Next]_vars => VectorInv'
<1> SUFFICES ASSUME VectorInv, [Next]_vars PROVE VectorInv'
  OBVIOUS
<1>1. ASSUME NEW key \in Key, CreateSound(key) PROVE VectorInv'
  <2>1. CASE MissingSound(key)
    BY <2>1 DEF MissingSound, vars, vector, VectorInv, SlotsUsedInOrder,
                IndicesStable, OncePerKey
  <2> QED
    BY <1>1, <2>1, ReuseKeepsVector, LoadKeepsVector DEF CreateSound
<1>2. CASE UNCHANGED <<vector, issued>>
  BY <1>2 DEF vector, VectorInv, SlotsUsedInOrder, IndicesStable, OncePerKey
<1>3. ASSUME NEW r \in Caller \cup {NoCaller}, NEW k \in Issued,
             NEW node \in Node \cup {NoNode}, PlaySound(r, k, node)
      PROVE  UNCHANGED <<vector, issued>>
  BY <1>3 DEF PlaySound, SkipSound, PlayFails, PlayStarts, vars
<1>4. ASSUME NEW c \in Channel, SoundEnds(c) PROVE UNCHANGED <<vector, issued>>
  BY <1>4 DEF SoundEnds
<1>5. ASSUME NEW r \in Caller, StopSound(r) PROVE UNCHANGED <<vector, issued>>
  BY <1>5 DEF StopSound
<1>6. CASE StopAllSounds
  BY <1>2, <1>6 DEF StopAllSounds
<1>7. CASE UNCHANGED vars
  BY <1>2, <1>7 DEF vars
<1>8. CASE FrameStarted
  BY <1>2, <1>8 DEF FrameStarted
<1> QED
  BY <1>1, <1>2, <1>3, <1>4, <1>5, <1>6, <1>7, <1>8 DEF Next

LEMMA VectorInvariant == Spec => []VectorInv
BY InitVector, StepVector, PTL DEF Spec

\* A caller may keep an index for ever: the vector that grows in
\* IncrementNextSoundInstanceIndex keeps every instance where it was.
THEOREM IndicesAlwaysStable == Spec => []IndicesStable
<1>1. VectorInv => IndicesStable
  BY DEF VectorInv
<1> QED
  BY <1>1, VectorInvariant, PTL

\* Index 0 is never given to a sound, and files that are missing use none.
THEOREM SlotsAlwaysInOrder == Spec => []SlotsUsedInOrder
<1>1. VectorInv => SlotsUsedInOrder
  BY DEF VectorInv
<1> QED
  BY <1>1, VectorInvariant, PTL

\* A file is never loaded twice for one type.
THEOREM AlwaysOncePerKey == Spec => []OncePerKey
<1>1. VectorInv => OncePerKey
  BY DEF VectorInv
<1> QED
  BY <1>1, VectorInvariant, PTL

-----------------------------------------------------------------------------
(* The channels                                                             *)

ChannelInv ==
  /\ channelArray \in [Channel -> Node \cup {NoNode}]
  /\ prevPosition \in [Channel -> Node \cup {NoNode}]
  /\ playing \in [Channel -> Nat]
  /\ channelIndex \in [Caller -> Channel \cup {INVALID_SOUND_CHANNEL}]
  /\ attached \in [Channel -> Node \cup {NoNode}]
  /\ SoundKeepsItsNode
  /\ VelocityIsOwn

LEMMA InitChannels == Init => ChannelInv
BY DEF Init, ChannelInv, SoundKeepsItsNode, VelocityIsOwn, INVALID_SOUND_INDEX

\* PlaySound, when FMOD has found a channel: the node is written on every path.
LEMMA PlayKeepsChannels ==
  ASSUME ChannelInv, loaded \subseteq Nat,
         NEW r \in Caller \cup {NoCaller}, NEW k,
         NEW node \in Node \cup {NoNode}, PlayStarts(r, k, node)
  PROVE  ChannelInv'
<1> USE DEF ChannelInv
<1>1. PICK c \in Free :
        /\ channelArray' = [channelArray EXCEPT ![c] = node]
        /\ prevPosition' = Placed(c, node)
        /\ playing' = [playing EXCEPT ![c] = k]
        /\ attached' = [attached EXCEPT ![c] = node]
        /\ Store(r, c)
  BY DEF PlayStarts
<1>2. c \in Channel /\ k \in loaded /\ k \in Nat /\ loaded' = loaded
  BY DEF Free, PlayStarts, vector
<1>3. channelIndex' \in [Caller -> Channel \cup {INVALID_SOUND_CHANNEL}]
  BY <1>1, <1>2 DEF Store
<1>4. SoundKeepsItsNode'
  BY <1>1, <1>2 DEF SoundKeepsItsNode
<1>5. prevPosition' \in [Channel -> Node \cup {NoNode}]
  BY <1>1, <1>2 DEF Placed
<1>6. VelocityIsOwn'
  BY <1>1, <1>2 DEF VelocityIsOwn, Placed
<1> QED
  BY <1>1, <1>2, <1>3, <1>4, <1>5, <1>6

LEMMA StepChannels ==
  VectorInv /\ ChannelInv /\ [Next]_vars => ChannelInv'
<1> SUFFICES ASSUME VectorInv, ChannelInv, [Next]_vars PROVE ChannelInv'
  OBVIOUS
<1> USE DEF ChannelInv, channels
<1>1. loaded \subseteq Nat
  BY DEF VectorInv, SlotsUsedInOrder
<1>2. CASE loaded \subseteq loaded' /\ UNCHANGED <<channels, channelIndex>>
  BY <1>2 DEF SoundKeepsItsNode, VelocityIsOwn
<1>3. ASSUME NEW key \in Key, CreateSound(key) PROVE ChannelInv'
  BY <1>2, <1>3
     DEF CreateSound, ReuseSound, MissingSound, LoadSound, vars, vector
<1>4. ASSUME NEW r \in Caller \cup {NoCaller}, NEW k \in Issued,
             NEW node \in Node \cup {NoNode}, PlaySound(r, k, node)
      PROVE  ChannelInv'
  <2>1. CASE SkipSound(r, node)
    BY <1>2, <2>1 DEF SkipSound, vars, vector
  <2>2. CASE PlayFails(r, node)
    <3>1. channelIndex' \in [Caller -> Channel \cup {INVALID_SOUND_CHANNEL}]
      BY <2>2 DEF PlayFails, Store
    <3>2. UNCHANGED <<loaded, channels>>
      BY <2>2 DEF PlayFails, vector
    <3> QED
      BY <3>1, <3>2 DEF SoundKeepsItsNode, VelocityIsOwn
  <2>3. CASE PlayStarts(r, k, node)
    BY <1>1, <2>3, PlayKeepsChannels
  <2> QED
    BY <1>4, <2>1, <2>2, <2>3 DEF PlaySound
<1>5. ASSUME NEW c \in Channel, SoundEnds(c) PROVE ChannelInv'
  BY <1>5 DEF SoundEnds, SoundKeepsItsNode, VelocityIsOwn, vector,
     INVALID_SOUND_INDEX
<1>6. ASSUME NEW r \in Caller, StopSound(r) PROVE ChannelInv'
  BY <1>6 DEF StopSound, SoundKeepsItsNode, VelocityIsOwn, vector,
     INVALID_SOUND_INDEX
<1>7. CASE StopAllSounds
  BY <1>7 DEF StopAllSounds, SoundKeepsItsNode, VelocityIsOwn, vector,
     INVALID_SOUND_INDEX
<1>8. CASE UNCHANGED vars
  BY <1>2, <1>8 DEF vars, vector
<1>9. CASE FrameStarted
  BY <1>9 DEF FrameStarted, SoundKeepsItsNode, VelocityIsOwn, vector
<1> QED
  BY <1>3, <1>4, <1>5, <1>6, <1>7, <1>8, <1>9 DEF Next

\* FrameStarted moves a sound with the node it was started on, whichever
\* sounds had the channel before and however they lost it.
THEOREM SoundAlwaysKeepsItsNode == Spec => []SoundKeepsItsNode
<1>1. ChannelInv => SoundKeepsItsNode
  BY DEF ChannelInv
<1>2. Init /\ [][Next]_vars => []ChannelInv
  BY InitChannels, StepChannels, VectorInvariant, PTL DEF Spec
<1> QED
  BY <1>1, <1>2, VectorInvariant, PTL DEF Spec

\* No sound is given the velocity of a jump from where another one was.
THEOREM VelocityAlwaysOwn == Spec => []VelocityIsOwn
<1>1. ChannelInv => VelocityIsOwn
  BY DEF ChannelInv
<1>2. Init /\ [][Next]_vars => []ChannelInv
  BY InitChannels, StepChannels, VectorInvariant, PTL DEF Spec
<1> QED
  BY <1>1, <1>2, VectorInvariant, PTL DEF Spec

\* The vector of sounds and the array of channels keep their types.
THEOREM TypeIsOK == Spec => []TypeOK
<1>1. VectorInv /\ ChannelInv => TypeOK
  BY DEF VectorInv, ChannelInv, TypeOK, SlotsUsedInOrder
<1>2. Init /\ [][Next]_vars => []ChannelInv
  BY InitChannels, StepChannels, VectorInvariant, PTL DEF Spec
<1> QED
  BY <1>1, <1>2, VectorInvariant, PTL DEF Spec

-----------------------------------------------------------------------------
(* What the callers are promised                                            *)

BoardInv == VectorInv /\ ChannelInv /\ loaded \in SUBSET Nat

LEMMA BoardInvariant == Spec => []BoardInv
<1>1. VectorInv => loaded \in SUBSET Nat
  BY DEF VectorInv, SlotsUsedInOrder
<1>2. Init /\ [][Next]_vars => []ChannelInv
  BY InitChannels, StepChannels, VectorInvariant, PTL DEF Spec
<1> QED
  BY <1>1, <1>2, VectorInvariant, PTL DEF Spec, BoardInv

\* The files of the first n instances.
Numbered(s, n) == [k \in 1 .. n |-> s[k]]

LEMMA NumberedIsSeq ==
  ASSUME NEW s, NEW n \in Nat, NEW S, \A k \in 1 .. n : s[k] \in S
  PROVE  Numbered(s, n) \in Seq(S) /\ Len(Numbered(s, n)) = n
<1>1. Numbered(s, n) \in [1 .. n -> S]
  BY DEF Numbered
<1>2. Numbered(s, n) \in Seq(S)
  BY <1>1, SeqDef
<1>3. DOMAIN Numbered(s, n) = 1 .. n
  BY DEF Numbered
<1> QED
  BY <1>2, <1>3, LenProperties

\* One more instance is one more file at the end.
LEMMA NumberedAppends ==
  ASSUME NEW n \in Nat, NEW m, m = n + 1, NEW s, NEW t,
         \A k \in 1 .. n : t[k] = s[k]
  PROVE  Numbered(t, m) = Append(Numbered(s, n), t[m])
<1> DEFINE q == Append(Numbered(s, n), t[m])
           S == {t[k] : k \in 1 .. m}
<1>1. Numbered(s, n) \in Seq(S) /\ Len(Numbered(s, n)) = n
  <2>1. \A k \in 1 .. n : s[k] \in S
    OBVIOUS
  <2> HIDE DEF S
  <2> QED
    BY <2>1, NumberedIsSeq
<1>2. /\ q \in Seq(S) /\ Len(q) = m
      /\ \A k \in 1 .. n : q[k] = Numbered(s, n)[k]
      /\ q[m] = t[m]
  <2>1. t[m] \in S
    OBVIOUS
  <2> HIDE DEF S
  <2> QED
    BY <1>1, <2>1, AppendProperties
<1> HIDE DEF S
<1>3. \A k \in 1 .. m : k \in 1 .. n \/ k = m
  OBVIOUS
<1>4. \A k \in 1 .. n : q[k] = t[k]
  BY <1>2 DEF Numbered
<1>5. \A k \in 1 .. m : q[k] = t[k]
  BY <1>2, <1>3, <1>4
<1>6. DOMAIN q = 1 .. m
  BY <1>2, LenProperties
<1>7. q = [k \in 1 .. m |-> q[k]]
  BY <1>2, <1>6, LenProperties
<1> HIDE DEF q
<1>8. Numbered(t, m) = q
  BY <1>5, <1>7 DEF Numbered
<1> QED
  BY <1>8 DEF q

\* A channel is heard exactly when FMOD plays it: what it plays has a name.
LEMMA VoiceIsHeard ==
  ASSUME BoardInv, NEW c \in Channel
  PROVE  Voice[c] = Board!Silence <=> playing[c] = INVALID_SOUND_INDEX
<1>1. CASE playing[c] = INVALID_SOUND_INDEX
  BY <1>1 DEF Voice, Board!Silence
<1>2. CASE playing[c] # INVALID_SOUND_INDEX
  <2>1. playing[c] \in loaded
    BY <1>2 DEF BoardInv, ChannelInv, SoundKeepsItsNode
  <2>2. playing[c] \in 1 .. nextSoundInstanceIndex
    BY <2>1 DEF BoardInv, VectorInv, SlotsUsedInOrder
  <2>3. slots[playing[c]] # NoKey
    BY <2>2 DEF BoardInv, VectorInv, SlotsUsedInOrder
  <2>4. Voice[c].sound = slots[playing[c]]
    BY <1>2 DEF Voice
  <2>5. Board!Silence.sound = NoKey
    BY DEF Board!Silence
  <2> QED
    BY <1>2, <2>3, <2>4, <2>5
<1> QED
  BY <1>1, <1>2

\* CreateSound, when it finds the sound, gives the number again.
LEMMA ReuseReissues ==
  ASSUME BoardInv, NEW key \in Key, ReuseSound(key)
  PROVE  Board!BoardNext
<1> DEFINE names == Numbered(slots, nextSoundInstanceIndex)
<1> USE DEF BoardInv, VectorInv
<1>1. PICK k \in Found(key) : Issue(key, k)
  BY DEF ReuseSound
<1>2. k \in 0 .. capacity - 1 /\ slots[k] = key
  BY <1>1 DEF Found
<1>3. k \in 1 .. nextSoundInstanceIndex
  BY <1>2, SoundAssumption DEF SlotsUsedInOrder
<1>4. Len(names) = nextSoundInstanceIndex /\ names[k] = key
  <2>1. /\ nextSoundInstanceIndex \in Nat
        /\ \A j \in 1 .. nextSoundInstanceIndex : slots[j] \in Key \cup {NoKey}
    OBVIOUS
  <2>2. Len(names) = nextSoundInstanceIndex
    BY <2>1, NumberedIsSeq
  <2>3. names[k] = key
    BY <1>2, <1>3 DEF Numbered
  <2> QED
    BY <2>2, <2>3
<1>5. issued' = [issued EXCEPT ![names[k]] = @ \cup {k}]
  BY <1>1, <1>4 DEF Issue
<1>6. UNCHANGED <<names, loaded, Voice>>
  BY DEF ReuseSound, vector, channels, Numbered, Voice
<1>7. Board!Reissue(k)
  BY <1>5, <1>6 DEF Board!Reissue, Numbered
<1> QED
  BY <1>3, <1>4, <1>7 DEF Board!BoardNext, Numbered

\* CreateSound, when it fills in a new instance: whether or not the vector is
\* replaced, the numbers of the other files and what is heard stay.
LEMMA LoadRegisters ==
  ASSUME BoardInv, NEW key \in Key, LoadSound(key)
  PROVE  Board!BoardNext
<1> DEFINE n     == nextSoundInstanceIndex
           new   == n + 1
           names == Numbered(slots, n)
<1> USE DEF BoardInv, VectorInv
<1>1. /\ Grown \in Nat /\ Grown >= capacity
      /\ new \in 1 .. Grown - 1
  BY GrownHasRoom
<1>2. /\ Copied(Grown) \in [0 .. Grown - 1 -> Key \cup {NoKey}]
      /\ \A k \in 0 .. capacity - 1 : Copied(Grown)[k] = slots[k]
  BY <1>1, CopiedKeeps
<1>3. /\ nextSoundInstanceIndex' = new
      /\ slots' = [Copied(Grown) EXCEPT ![new] = key]
  BY DEF LoadSound
<1>4. \A k \in 1 .. n : slots[k] \in Key \cup {NoKey} /\ slots'[k] = slots[k]
  <2> TAKE k \in 1 .. n
  <2>1. k \in 0 .. capacity - 1 /\ k \in 0 .. Grown - 1 /\ k # new
    BY <1>1
  <2> QED
    BY <1>2, <1>3, <2>1
<1>5. slots'[new] = key
  BY <1>1, <1>2, <1>3
<1>6. Len(names) = n
  <2>1. n \in Nat
    OBVIOUS
  <2> HIDE DEF n
  <2> QED
    BY <1>4, <2>1, NumberedIsSeq
<1>7. Numbered(slots', new) = Append(names, key)
  <2>1. n \in Nat /\ new = n + 1 /\ \A k \in 1 .. n : slots'[k] = slots[k]
    BY <1>4
  <2> HIDE DEF n, new, BoardInv
  <2>2. Numbered(slots', new) = Append(Numbered(slots, n), slots'[new])
    BY <2>1, NumberedAppends
  <2> QED
    BY <1>5, <2>2
<1>8. \A k \in 1 .. Len(names) : names[k] # key
  BY <1>6 DEF LoadSound, Found, Numbered
<1>9. UNCHANGED Voice
  <2>1. UNCHANGED <<playing, channelArray>>
    BY DEF LoadSound, channels
  <2>2. ASSUME NEW c \in Channel, playing[c] # INVALID_SOUND_INDEX
        PROVE  slots'[playing[c]] = slots[playing[c]]
    <3>1. playing[c] \in loaded
      BY <2>2 DEF ChannelInv, SoundKeepsItsNode
    <3>2. playing[c] \in 1 .. n
      BY <3>1 DEF SlotsUsedInOrder
    <3> QED
      BY <1>4, <3>2
  <2> QED
    BY <2>1, <2>2 DEF Voice
<1>10. \/ /\ loaded' = loaded \cup {Len(names) + 1}
          /\ issued' = [issued EXCEPT ![key] = @ \cup {Len(names) + 1}]
       \/ UNCHANGED <<loaded, issued>>
  BY <1>6 DEF LoadSound, Issue
<1>11. Board!Register(key)
  BY <1>3, <1>7, <1>8, <1>9, <1>10 DEF Board!Register, Numbered
<1> QED
  BY <1>11 DEF Board!BoardNext

\* PlaySound, when FMOD has found a channel: whatever node was left in the
\* channel, the one of this sound is heard.
LEMMA PlayStartsVoice ==
  ASSUME BoardInv, NEW r \in Caller \cup {NoCaller}, NEW k,
         NEW node \in Node \cup {NoNode}, PlayStarts(r, k, node)
  PROVE  Board!BoardNext
<1> DEFINE names == Numbered(slots, nextSoundInstanceIndex)
<1> USE DEF BoardInv, VectorInv, ChannelInv
<1>1. PICK c \in Free : /\ channelArray' = [channelArray EXCEPT ![c] = node]
                        /\ playing' = [playing EXCEPT ![c] = k]
  BY DEF PlayStarts
<1>2. c \in Channel /\ k \in loaded /\ UNCHANGED <<vector, issued>>
  BY DEF Free, PlayStarts
<1>3. k \in 1 .. nextSoundInstanceIndex
  BY <1>2 DEF SlotsUsedInOrder
<1>4. k # INVALID_SOUND_INDEX
  BY <1>3 DEF INVALID_SOUND_INDEX
<1>5. names[k] = slots[k]
  BY <1>3 DEF Numbered
<1>6. Voice' = [Voice EXCEPT ![c] = [sound |-> names[k], node |-> node]]
  <2>1. UNCHANGED slots
    BY <1>2 DEF vector
  <2>2. Voice'[c] = [sound |-> names[k], node |-> node]
    BY <1>1, <1>2, <1>4, <1>5, <2>1 DEF Voice
  <2>3. \A d \in Channel \ {c} : Voice'[d] = Voice[d]
    BY <1>1, <2>1 DEF Voice
  <2>4. /\ Voice  = [d \in Channel |-> Voice[d]]
        /\ Voice' = [d \in Channel |-> Voice'[d]]
    BY DEF Voice
  <2> QED
    BY <1>2, <2>2, <2>3, <2>4
<1>7. Voice[c] = Board!Silence \/ \A d \in Channel : Voice[d] # Board!Silence
  BY <1>1, <1>2, VoiceIsHeard DEF Free
<1>8. UNCHANGED <<names, loaded, issued>>
  BY <1>2 DEF vector, Numbered
<1>9. Board!Start(c, k, node)
  BY <1>2, <1>6, <1>7, <1>8 DEF Board!Start, Numbered
<1> QED
  BY <1>2, <1>9 DEF Board!BoardNext

\* Whatever becomes of the nodes in the array, a channel that plays no more is
\* silent, and the others are heard as before.
LEMMA VoicesEnd ==
  ASSUME NEW ended \in SUBSET Channel, UNCHANGED <<vector, issued>>,
         \A c \in ended : playing'[c] = INVALID_SOUND_INDEX,
         \A c \in Channel \ ended :
           playing'[c] = playing[c] /\ channelArray'[c] = channelArray[c]
  PROVE  Board!BoardNext
<1>1. UNCHANGED <<slots, loaded, nextSoundInstanceIndex>>
  BY DEF vector
<1>2. Voice' = [c \in Channel |-> IF c \in ended THEN Board!Silence ELSE Voice[c]]
  BY <1>1 DEF Voice, Board!Silence
<1>3. Board!End(ended)
  BY <1>1, <1>2 DEF Board!End, Board!Silence
<1> QED
  BY <1>3 DEF Board!BoardNext

\* Nothing to be heard.
LEMMA VoicesStay ==
  ASSUME UNCHANGED <<vector, issued, playing, channelArray>>
  PROVE  UNCHANGED Board!boardVars
BY DEF vector, Voice, Board!boardVars

LEMMA StepBoard == BoardInv /\ [Next]_vars => [Board!BoardNext]_Board!boardVars
<1> SUFFICES ASSUME BoardInv, [Next]_vars
             PROVE  [Board!BoardNext]_Board!boardVars
  OBVIOUS
<1>1. ASSUME NEW key \in Key, CreateSound(key)
      PROVE  [Board!BoardNext]_Board!boardVars
  <2>1. CASE MissingSound(key)
    BY <2>1, VoicesStay DEF MissingSound, vars, channels
  <2> QED
    BY <1>1, <2>1, ReuseReissues, LoadRegisters DEF CreateSound
<1>2. ASSUME NEW r \in Caller \cup {NoCaller}, NEW k \in Issued,
             NEW node \in Node \cup {NoNode}, PlaySound(r, k, node)
      PROVE  [Board!BoardNext]_Board!boardVars
  <2>1. CASE SkipSound(r, node) \/ PlayFails(r, node)
    BY <2>1, VoicesStay DEF SkipSound, PlayFails, vars, channels
  <2> QED
    BY <1>2, <2>1, PlayStartsVoice DEF PlaySound
<1>3. ASSUME NEW c \in Channel, SoundEnds(c)
      PROVE  Board!BoardNext
  <2>1. /\ playing'[c] = INVALID_SOUND_INDEX
        /\ \A d \in Channel \ {c} :
             playing'[d] = playing[d] /\ channelArray'[d] = channelArray[d]
    BY <1>3 DEF SoundEnds, BoardInv, ChannelInv
  <2>2. {c} \in SUBSET Channel /\ UNCHANGED <<vector, issued>>
    BY <1>3 DEF SoundEnds
  <2> QED
    BY <2>1, <2>2, VoicesEnd
<1>4. ASSUME NEW r \in Caller, StopSound(r)
      PROVE  Board!BoardNext
  <2> DEFINE c == channelIndex[r]
  <2>1. c \in Channel
    BY <1>4 DEF StopSound, BoardInv, ChannelInv
  <2>2. /\ playing'[c] = INVALID_SOUND_INDEX
        /\ \A d \in Channel \ {c} :
             playing'[d] = playing[d] /\ channelArray'[d] = channelArray[d]
    BY <1>4, <2>1 DEF StopSound, BoardInv, ChannelInv
  <2>3. {c} \in SUBSET Channel /\ UNCHANGED <<vector, issued>>
    BY <1>4, <2>1 DEF StopSound
  <2> HIDE DEF c
  <2> QED
    BY <2>2, <2>3, VoicesEnd
<1>5. CASE StopAllSounds
  <2>1. \A c \in Channel : playing'[c] = INVALID_SOUND_INDEX
    BY <1>5 DEF StopAllSounds
  <2>2. UNCHANGED <<vector, issued>>
    BY <1>5 DEF StopAllSounds
  <2> QED
    BY <2>1, <2>2, VoicesEnd
<1>6. CASE FrameStarted
  BY <1>6, VoicesStay DEF FrameStarted
<1>7. CASE UNCHANGED vars
  BY <1>7, VoicesStay DEF vars, channels
<1> QED
  BY <1>1, <1>2, <1>3, <1>4, <1>5, <1>6, <1>7 DEF Next

\* A caller's number never comes to mean another file and what is heard never
\* changes its file or node, through the growth of the vector, failed loads,
\* stale nodes and channels taken away, for any numbers of everything.
THEOREM SoundManagerImplementsBoard == Spec => ImplementsBoard
<1>1. Init => Board!BoardInit
  <2> SUFFICES ASSUME Init PROVE Board!BoardInit
    OBVIOUS
  <2>1. [k \in 1 .. nextSoundInstanceIndex |-> slots[k]] = <<>>
    BY DEF Init
  <2>2. Voice = [c \in Channel |-> Board!Silence]
    BY DEF Init, Voice, Board!Silence
  <2> QED
    BY <2>1, <2>2 DEF Init, Board!BoardInit
<1>2. BoardInv /\ [Next]_vars => [Board!BoardNext]_Board!boardVars
  BY StepBoard
<1> QED
  BY <1>1, <1>2, BoardInvariant, PTL DEF Spec, ImplementsBoard, Board!BoardSpec
=============================================================================
