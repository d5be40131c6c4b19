-------------------------- MODULE LeaderboardProofs --------------------------
(***************************************************************************)
(* What a player is told of his scores is true, for any number of players   *)
(* and games, whatever the network loses.                                   *)
(***************************************************************************)
EXTENDS Leaderboard, SequenceTheorems, TLAPS

-----------------------------------------------------------------------------
(* Sequences without repetition, as the sets of their elements              *)

LEMMA AppendElement ==
  ASSUME NEW S, NEW s \in Seq(S), NEW e \in S
  PROVE  /\ Append(s, e) \in Seq(S)
         /\ ToSet(Append(s, e)) = ToSet(s) \cup {e}
         /\ IsInjective(s) /\ e \notin ToSet(s) => IsInjective(Append(s, e))
<1> DEFINE t == Append(s, e)
           n == Len(s)
<1>1. /\ t \in Seq(S) /\ n \in Nat /\ Len(t) = n + 1
      /\ DOMAIN s = 1..n /\ DOMAIN t = 1..(n + 1)
      /\ \A k \in 1..n : t[k] = s[k]
      /\ t[n + 1] = e
  BY AppendProperties, LenProperties
<1> HIDE DEF t, n
<1>2. ToSet(t) = ToSet(s) \cup {e}
  <2>1. \A x \in ToSet(t) : x \in ToSet(s) \cup {e}
    BY <1>1 DEF ToSet
  <2>2. \A x \in ToSet(s) : x \in ToSet(t)
    BY <1>1 DEF ToSet
  <2>3. e \in ToSet(t)
    BY <1>1 DEF ToSet
  <2> QED
    BY <2>1, <2>2, <2>3
<1>3. ASSUME IsInjective(s), e \notin ToSet(s)
      PROVE  IsInjective(t)
  <2>1. \A k \in 1..n : s[k] # e
    BY <1>1, <1>3 DEF ToSet
  <2> QED
    BY <1>1, <1>3, <2>1 DEF IsInjective
<1> QED
  BY <1>1, <1>2, <1>3 DEF t

LEMMA TakeHead ==
  ASSUME NEW S, NEW s \in Seq(S), s # <<>>
  PROVE  /\ Head(s) \in S /\ Tail(s) \in Seq(S)
         /\ ToSet(s) = ToSet(Tail(s)) \cup {Head(s)}
         /\ IsInjective(s) => IsInjective(Tail(s)) /\ Head(s) \notin ToSet(Tail(s))
<1> DEFINE t == Tail(s)
           h == Head(s)
           n == Len(s)
<1>1. /\ t \in Seq(S) /\ h \in S /\ n \in Nat \ {0} /\ Len(t) = n - 1
      /\ DOMAIN s = 1..n /\ DOMAIN t = 1..(n - 1)
      /\ \A k \in 1..(n - 1) : t[k] = s[k + 1]
      /\ s[1] = h
  BY HeadTailProperties, LenProperties, EmptySeq
<1> HIDE DEF t, h, n
<1>2. ToSet(s) = ToSet(t) \cup {h}
  <2>1. ASSUME NEW k \in 1..n
        PROVE  s[k] \in ToSet(t) \cup {h}
    <3>1. CASE k = 1
      BY <1>1, <3>1
    <3>2. CASE k # 1
      <4>1. k - 1 \in 1..(n - 1) /\ t[k - 1] = s[(k - 1) + 1] /\ (k - 1) + 1 = k
        BY <1>1, <2>1, <3>2
      <4> QED
        BY <1>1, <4>1 DEF ToSet
    <3> QED
      BY <3>1, <3>2
  <2>2. ASSUME NEW k \in 1..(n - 1)
        PROVE  t[k] \in ToSet(s)
    BY <1>1, <2>2 DEF ToSet
  <2>3. h \in ToSet(s)
    BY <1>1 DEF ToSet
  <2> QED
    BY <1>1, <2>1, <2>2, <2>3 DEF ToSet
<1>3. ASSUME IsInjective(s)
      PROVE  IsInjective(t) /\ h \notin ToSet(t)
  <2>1. IsInjective(t)
    <3> SUFFICES ASSUME NEW j \in 1..(n - 1), NEW k \in 1..(n - 1), t[j] = t[k]
                 PROVE  j = k
      BY <1>1 DEF IsInjective
    <3>1. s[j + 1] = s[k + 1] /\ j + 1 \in 1..n /\ k + 1 \in 1..n
      BY <1>1
    <3>2. j + 1 = k + 1
      BY <1>1, <1>3, <3>1 DEF IsInjective
    <3> QED
      BY <3>2
  <2>2. ASSUME NEW k \in 1..(n - 1), t[k] = h
        PROVE  FALSE
    <3>1. s[k + 1] = s[1] /\ k + 1 \in 1..n /\ 1 \in 1..n
      BY <1>1, <2>2
    <3>2. k + 1 = 1
      BY <1>1, <1>3, <3>1 DEF IsInjective
    <3> QED
      BY <3>2
  <2> QED
    BY <1>1, <2>1, <2>2 DEF ToSet
<1> QED
  BY <1>1, <1>2, <1>3 DEF t, h

LEMMA NothingInEmpty == ToSet(<<>>) = {} /\ IsInjective(<<>>)
BY DEF ToSet, IsInjective

-----------------------------------------------------------------------------
(* The invariant: one part for the table, one for each player               *)

\* Without a connection nothing is sent, asked for or shown.
Offline(c) ==
  ~is_connected_[c] =>
    /\ ~link[c]
    /\ pc[c] \notin {"insert", "fetch"}
    /\ shown[c] = <<>>
    /\ \A r \in ToSet(scores) : r[1] # c

\* The list box speaks when there is no connection, and only then.
Notices(c) ==
  /\ pc[c] = "connect" => ~is_connected_[c]
  /\ pc[c] = "menu" => (notice[c] = "none" <=> is_connected_[c])
  /\ pc[c] = "fetch" => notice[c] = "none"

\* Rows are of games that ended; the game on the form has no row yet.
Games(c) ==
  /\ \A r \in ToSet(scores) : r[1] = c => r[2] <= played[c]
  /\ pc[c] \in {"form", "insert"} =>
       played[c] >= 1 /\ <<c, played[c]>> \notin ToSet(scores)

\* What is shown and what is still to come are different rows of the table,
\* and together all of the player's own, until an error cuts off the rest.
Lists(c) ==
  /\ IsInjective(shown[c]) /\ IsInjective(res[c])
  /\ ToSet(shown[c]) \cap ToSet(res[c]) = {}
  /\ ToSet(shown[c]) \cup ToSet(res[c]) \subseteq ToSet(scores)
  /\ pc[c] # "fetch" => res[c] = <<>>
  /\ pc[c] = "fetch" => ~whole[c]
  /\ pc[c] = "fetch" \/ (pc[c] = "menu" /\ whole[c]) =>
       \A r \in ToSet(scores) :
         r[1] = c => r \in ToSet(shown[c]) \cup ToSet(res[c])

ClientInv(c) == Offline(c) /\ Notices(c) /\ Games(c) /\ Lists(c)

LeaderboardInv ==
  /\ TypeOK
  /\ IsInjective(scores)
  /\ \A c \in Client : ClientInv(c)

LEMMA InitInv == Init => LeaderboardInv
<1> SUFFICES ASSUME Init
             PROVE  LeaderboardInv
  OBVIOUS
<1>1. TypeOK
  BY LeaderboardAssumption DEF Init, TypeOK
<1>2. \A c \in Client : ClientInv(c)
  BY NothingInEmpty DEF Init, ClientInv, Offline, Notices, Games, Lists
<1> QED
  BY <1>1, <1>2, NothingInEmpty DEF Init, LeaderboardInv

\* What a step of player a does to the table.
LEMMA TableGrows ==
  ASSUME LeaderboardInv, NEW a \in Client, Step(a)
  PROVE  /\ scores' \in Seq(Row) /\ IsInjective(scores')
         /\ \/ scores' = scores
            \/ /\ pc[a] = "insert" /\ is_connected_[a]
               /\ ToSet(scores') = ToSet(scores) \cup {<<a, played[a]>>}
<1>1. CASE ExecuteStored(a)
  <2>1. /\ pc[a] = "insert" /\ is_connected_[a]
        /\ played[a] \in 1..MaxGames
        /\ <<a, played[a]>> \notin ToSet(scores)
        /\ scores \in Seq(Row) /\ IsInjective(scores)
    <3>1. pc[a] = "insert" /\ ClientInv(a) /\ TypeOK /\ IsInjective(scores)
      BY <1>1 DEF ExecuteStored, LeaderboardInv
    <3>2. is_connected_[a]
      BY <3>1 DEF ClientInv, Offline
    <3>3. played[a] >= 1 /\ <<a, played[a]>> \notin ToSet(scores)
      BY <3>1 DEF ClientInv, Games
    <3>4. played[a] \in 0..MaxGames /\ scores \in Seq(Row)
      BY <3>1 DEF TypeOK
    <3> QED
      BY <3>1, <3>2, <3>3, <3>4, LeaderboardAssumption
  <2>2. <<a, played[a]>> \in Row
    BY <2>1 DEF Row
  <2>3. scores' = Append(scores, <<a, played[a]>>)
    BY <1>1 DEF ExecuteStored
  <2> QED
    BY <2>1, <2>2, <2>3, AppendElement
<1>2. CASE ~ExecuteStored(a)
  <2>1. scores' = scores
    BY <1>2 DEF Step, Connect, FailToConnect, Play, HandleReturn, HandleSend,
                ExecuteRefused, Populate, Answered, SelectRefused,
                FetchRow, FetchEnd, FetchFails, LinkDrops
  <2> QED
    BY <2>1 DEF LeaderboardInv, TypeOK
<1> QED
  BY <1>1, <1>2

\* The invariant of one player is not touched by what another does.
LEMMA OthersKeepClient ==
  ASSUME LeaderboardInv, NEW a \in Client, Step(a), NEW c \in Client, c # a
  PROVE  ClientInv(c)'
<1>1. /\ pc'[c] = pc[c] /\ is_connected_'[c] = is_connected_[c]
      /\ link'[c] = link[c] /\ played'[c] = played[c] /\ res'[c] = res[c]
      /\ shown'[c] = shown[c] /\ notice'[c] = notice[c]
      /\ whole'[c] = whole[c]
  BY DEF Step, Connect, FailToConnect, Play, HandleReturn, HandleSend,
         ExecuteStored, ExecuteRefused, Populate, Answered, SelectRefused,
         FetchRow, FetchEnd, FetchFails, LinkDrops, LeaderboardInv, TypeOK
<1>2. /\ ToSet(scores) \subseteq ToSet(scores')
      /\ \A r \in ToSet(scores') : r[1] = c => r \in ToSet(scores)
  BY TableGrows
<1> QED
  BY <1>1, <1>2
     DEF LeaderboardInv, ClientInv, Offline, Notices, Games, Lists

-----------------------------------------------------------------------------
(* The steps of a player and the player's own part of the invariant         *)

LEMMA ConnectKeeps ==
  ASSUME LeaderboardInv, NEW a \in Client, Connect(a)
  PROVE  ClientInv(a)'
<1>1. TypeOK /\ Offline(a) /\ Notices(a) /\ Games(a) /\ Lists(a)
  BY DEF LeaderboardInv, ClientInv
<1>2a. /\ pc[a] = "connect" /\ pc'[a] = "populate"
       /\ played'[a] = played[a] /\ res'[a] = res[a]
       /\ shown'[a] = shown[a] /\ notice'[a] = notice[a]
       /\ scores' = scores
  BY <1>1 DEF Connect, TypeOK
<1>2b. is_connected_'[a] = TRUE /\ whole'[a] = whole[a]
  BY <1>1 DEF Connect, TypeOK
<1>3. Offline(a)'
  BY <1>1, <1>2a, <1>2b DEF Offline
<1>4. Notices(a)'
  BY <1>1, <1>2a, <1>2b DEF Notices
<1>5. Games(a)'
  BY <1>1, <1>2a, <1>2b DEF Games
<1>6. Lists(a)'
  BY <1>1, <1>2a, <1>2b DEF Lists
<1> QED
  BY <1>3, <1>4, <1>5, <1>6 DEF ClientInv

LEMMA FailKeeps ==
  ASSUME LeaderboardInv, NEW a \in Client, FailToConnect(a)
  PROVE  ClientInv(a)'
<1>1. TypeOK /\ Offline(a) /\ Notices(a) /\ Games(a) /\ Lists(a)
  BY DEF LeaderboardInv, ClientInv
<1>2a. /\ pc[a] = "connect" /\ pc'[a] = "menu"
       /\ notice'[a] = "failed to connect"
       /\ played'[a] = played[a] /\ res'[a] = res[a]
       /\ shown'[a] = shown[a]
       /\ scores' = scores
  BY <1>1 DEF FailToConnect, TypeOK
<1>2b. /\ is_connected_'[a] = is_connected_[a] /\ link'[a] = link[a]
       /\ whole'[a] = whole[a]
  BY <1>1 DEF FailToConnect, TypeOK
<1>3. Offline(a)'
  BY <1>1, <1>2a, <1>2b DEF Offline
<1>4. Notices(a)'
  BY <1>1, <1>2a, <1>2b DEF Notices
<1>5. Games(a)'
  BY <1>1, <1>2a, <1>2b DEF Games
<1>6. Lists(a)'
  BY <1>1, <1>2a, <1>2b DEF Lists, Offline, Notices
<1> QED
  BY <1>3, <1>4, <1>5, <1>6 DEF ClientInv

LEMMA PlayedIsNat ==
  ASSUME TypeOK, NEW a \in Client
  PROVE  played[a] \in Nat /\ a \in DOMAIN played
<1>1. played \in [Client -> 0..MaxGames]
  BY DEF TypeOK
<1>2. played[a] \in 0..MaxGames /\ a \in DOMAIN played
  BY <1>1
<1> QED
  BY <1>2, LeaderboardAssumption

LEMMA PlayKeeps ==
  ASSUME LeaderboardInv, NEW a \in Client, Play(a)
  PROVE  ClientInv(a)'
<1>1. TypeOK /\ Offline(a) /\ Notices(a) /\ Games(a) /\ Lists(a)
  BY DEF LeaderboardInv, ClientInv
<1>2a. /\ pc[a] = "menu" /\ pc'[a] = "form"
       /\ scores \in Seq(Row)
       /\ res'[a] = res[a] /\ shown'[a] = shown[a]
       /\ notice'[a] = notice[a]
       /\ scores' = scores
  BY <1>1, LeaderboardAssumption DEF Play, TypeOK
<1>2b. /\ is_connected_'[a] = is_connected_[a] /\ link'[a] = link[a]
       /\ whole'[a] = whole[a]
  BY <1>1 DEF Play, TypeOK
<1>2c. played[a] \in Nat /\ played'[a] = played[a] + 1
  <2>1. played[a] \in Nat /\ a \in DOMAIN played
    BY <1>1, PlayedIsNat
  <2> QED
    BY <2>1 DEF Play
<1>3. Offline(a)'
  BY <1>1, <1>2a, <1>2b DEF Offline
<1>4. Notices(a)'
  BY <1>1, <1>2a, <1>2b DEF Notices
<1>5. Games(a)'
  <2>1. \A r \in ToSet(scores) : r[1] = a => r[2] \in Nat /\ r[2] <= played[a]
    BY <1>1, <1>2a DEF Games, Row, ToSet
  <2>2. <<a, played[a] + 1>> \notin ToSet(scores)
    BY <2>1, <1>2c
  <2> QED
    BY <1>2a, <1>2c, <2>1, <2>2 DEF Games
<1>6. Lists(a)'
  BY <1>1, <1>2a, <1>2b DEF Lists
<1> QED
  BY <1>3, <1>4, <1>5, <1>6 DEF ClientInv

LEMMA LeaveFormKeeps ==
  ASSUME LeaderboardInv, NEW a \in Client, HandleReturn(a) \/ HandleSend(a)
  PROVE  ClientInv(a)'
<1>1. TypeOK /\ Offline(a) /\ Notices(a) /\ Games(a) /\ Lists(a)
  BY DEF LeaderboardInv, ClientInv
<1>2a. /\ pc[a] = "form" /\ pc'[a] \in {"insert", "populate"}
       /\ played'[a] = played[a] /\ res'[a] = res[a]
       /\ shown'[a] = shown[a] /\ notice'[a] = notice[a]
       /\ scores' = scores
  BY <1>1 DEF HandleReturn, HandleSend, TypeOK
<1>2b. /\ is_connected_'[a] = is_connected_[a] /\ link'[a] = link[a]
       /\ whole'[a] = whole[a]
  BY <1>1 DEF HandleReturn, HandleSend, TypeOK
<1>2c. ~is_connected_[a] => pc'[a] = "populate"
  BY <1>1 DEF HandleReturn, HandleSend, TypeOK
<1>3. Offline(a)'
  BY <1>1, <1>2a, <1>2b, <1>2c DEF Offline
<1>4. Notices(a)'
  BY <1>1, <1>2a, <1>2b, <1>2c DEF Notices
<1>5. Games(a)'
  BY <1>1, <1>2a, <1>2b, <1>2c DEF Games
<1>6. Lists(a)'
  BY <1>1, <1>2a, <1>2b, <1>2c DEF Lists
<1> QED
  BY <1>3, <1>4, <1>5, <1>6 DEF ClientInv

LEMMA ExecuteKeeps ==
  ASSUME LeaderboardInv, NEW a \in Client, ExecuteStored(a) \/ ExecuteRefused(a)
  PROVE  ClientInv(a)'
<1>1. TypeOK /\ Offline(a) /\ Notices(a) /\ Games(a) /\ Lists(a)
  BY DEF LeaderboardInv, ClientInv
<1>2a. /\ pc[a] = "insert" /\ pc'[a] = "populate"
       /\ played'[a] = played[a] /\ res'[a] = res[a]
       /\ shown'[a] = shown[a] /\ notice'[a] = notice[a]
  BY <1>1 DEF ExecuteStored, ExecuteRefused, TypeOK
<1>2b. is_connected_'[a] = is_connected_[a] /\ whole'[a] = whole[a]
  BY <1>1 DEF ExecuteStored, ExecuteRefused, TypeOK
<1>2c. \/ scores' = scores
      \/ ToSet(scores') = ToSet(scores) \cup {<<a, played[a]>>}
  BY TableGrows DEF Step
<1>2d. is_connected_[a] /\ played[a] \in Nat
  <2>1. is_connected_[a]
    BY <1>1, <1>2a DEF Offline
  <2>2. played[a] \in Nat
    BY <1>1, PlayedIsNat
  <2> QED
    BY <2>1, <2>2
<1>3. Offline(a)'
  BY <1>1, <1>2a, <1>2b, <1>2c, <1>2d DEF Offline
<1>4. Notices(a)'
  BY <1>1, <1>2a, <1>2b, <1>2c, <1>2d DEF Notices
<1>5. Games(a)'
  BY <1>1, <1>2a, <1>2b, <1>2c, <1>2d DEF Games
<1>6. Lists(a)'
  BY <1>1, <1>2a, <1>2b, <1>2c, <1>2d DEF Lists
<1> QED
  BY <1>3, <1>4, <1>5, <1>6 DEF ClientInv

LEMMA PopulateKeeps ==
  ASSUME LeaderboardInv, NEW a \in Client, Populate(a)
  PROVE  ClientInv(a)'
<1>1. TypeOK /\ Offline(a) /\ Notices(a) /\ Games(a) /\ Lists(a)
  BY DEF LeaderboardInv, ClientInv
<1>2a. /\ pc[a] = "populate" /\ shown'[a] = <<>>
       /\ played'[a] = played[a] /\ scores' = scores
  BY <1>1 DEF Populate, TypeOK
<1>2b. /\ is_connected_'[a] = is_connected_[a] /\ link'[a] = link[a]
       /\ whole'[a] = FALSE
  BY <1>1 DEF Populate, TypeOK
<1>2c. \/ /\ is_connected_[a] /\ notice'[a] = "none"
          /\ pc'[a] = "fetch" /\ res'[a] = scores
       \/ /\ is_connected_[a] /\ notice'[a] = "none"
          /\ pc'[a] = "menu" /\ res'[a] = res[a]
       \/ /\ ~is_connected_[a] /\ notice'[a] = "not connected"
          /\ pc'[a] = "menu" /\ res'[a] = res[a]
  BY <1>1 DEF Populate, Answered, SelectRefused, TypeOK
<1>3. Offline(a)'
  BY <1>1, <1>2a, <1>2b, <1>2c DEF Offline
<1>4. Notices(a)'
  BY <1>1, <1>2a, <1>2b, <1>2c DEF Notices
<1>5. Games(a)'
  BY <1>1, <1>2a, <1>2b, <1>2c DEF Games
<1>6. Lists(a)'
  <2>1. IsInjective(scores) /\ res[a] = <<>>
    BY <1>1, <1>2a DEF LeaderboardInv, Lists
  <2>2. CASE pc'[a] = "fetch"
    BY <1>2a, <1>2b, <1>2c, <2>1, <2>2, NothingInEmpty DEF Lists
  <2>3. CASE pc'[a] = "menu"
    BY <1>2a, <1>2b, <1>2c, <2>1, <2>3, NothingInEmpty DEF Lists
  <2> QED
    BY <1>2c, <2>2, <2>3
<1> QED
  BY <1>3, <1>4, <1>5, <1>6 DEF ClientInv

LEMMA FetchRowKeeps ==
  ASSUME LeaderboardInv, NEW a \in Client, FetchRow(a)
  PROVE  ClientInv(a)'
<1> DEFINE s == shown[a]
           q == res[a]
<1>1. /\ pc[a] = "fetch" /\ q # <<>> /\ q \in Seq(Row) /\ s \in Seq(Row)
      /\ shown'[a] = Append(s, Head(q)) /\ res'[a] = Tail(q)
  BY DEF FetchRow, LeaderboardInv, TypeOK
<1>2. /\ Head(q) \in Row /\ Tail(q) \in Seq(Row)
      /\ ToSet(q) = ToSet(Tail(q)) \cup {Head(q)}
      /\ IsInjective(q) => IsInjective(Tail(q)) /\ Head(q) \notin ToSet(Tail(q))
  BY <1>1, TakeHead
<1>3. /\ ToSet(Append(s, Head(q))) = ToSet(s) \cup {Head(q)}
      /\ IsInjective(s) /\ Head(q) \notin ToSet(s)
           => IsInjective(Append(s, Head(q)))
  BY <1>1, <1>2, AppendElement
<1>4. UNCHANGED <<pc, is_connected_, link, played, scores, notice, whole>>
  BY DEF FetchRow
<1>5. Lists(a)'
  <2>1. Lists(a)
    BY DEF LeaderboardInv, ClientInv
  <2>2. /\ IsInjective(s) /\ IsInjective(q) /\ ToSet(s) \cap ToSet(q) = {}
        /\ ToSet(s) \cup ToSet(q) \subseteq ToSet(scores)
    BY <2>1 DEF Lists
  <2>3. /\ \A r \in ToSet(scores) : r[1] = a => r \in ToSet(s) \cup ToSet(q)
        /\ ~whole[a]
    BY <1>1, <2>1 DEF Lists
  <2> DEFINE s1 == Append(s, Head(q))
             q1 == Tail(q)
  <2>4. ToSet(s1) \cup ToSet(q1) = ToSet(s) \cup ToSet(q)
    BY <1>2, <1>3
  <2>5. ToSet(s1) \cap ToSet(q1) = {} /\ IsInjective(s1) /\ IsInjective(q1)
    BY <1>2, <1>3, <2>2
  <2>6. shown'[a] = s1 /\ res'[a] = q1 /\ scores' = scores /\ pc'[a] = "fetch"
        /\ whole'[a] = whole[a]
    BY <1>1, <1>4
  <2> HIDE DEF s1, q1, s, q
  <2> QED
    BY <2>2, <2>3, <2>4, <2>5, <2>6 DEF Lists
<1>6. Offline(a)'
  BY <1>1, <1>4 DEF LeaderboardInv, ClientInv, Offline
<1>7. Notices(a)' /\ Games(a)'
  BY <1>4 DEF LeaderboardInv, ClientInv, Notices, Games
<1> QED
  BY <1>5, <1>6, <1>7 DEF ClientInv

LEMMA FetchEndKeeps ==
  ASSUME LeaderboardInv, NEW a \in Client, FetchEnd(a) \/ FetchFails(a)
  PROVE  ClientInv(a)'
<1>1. TypeOK /\ Offline(a) /\ Notices(a) /\ Games(a) /\ Lists(a)
  BY DEF LeaderboardInv, ClientInv
<1>2a. /\ pc[a] = "fetch" /\ pc'[a] = "menu" /\ res'[a] = <<>>
       /\ played'[a] = played[a] /\ shown'[a] = shown[a]
       /\ notice'[a] = notice[a]
       /\ scores' = scores
  BY <1>1 DEF FetchEnd, FetchFails, TypeOK
<1>2b. /\ is_connected_'[a] = is_connected_[a] /\ link'[a] = link[a]
  BY <1>1 DEF FetchEnd, FetchFails, TypeOK
<1>2c. \/ whole'[a] = whole[a]
       \/ res[a] = <<>>
  BY <1>1 DEF FetchEnd, FetchFails, TypeOK
<1>3. Offline(a)'
  BY <1>1, <1>2a, <1>2b DEF Offline
<1>4. Notices(a)'
  BY <1>1, <1>2a, <1>2b DEF Notices, Offline
<1>5. Games(a)'
  BY <1>1, <1>2a, <1>2b DEF Games
<1>6. Lists(a)'
  BY <1>1, <1>2a, <1>2b, <1>2c, NothingInEmpty DEF Lists
<1> QED
  BY <1>3, <1>4, <1>5, <1>6 DEF ClientInv

LEMMA LinkDropsKeeps ==
  ASSUME LeaderboardInv, NEW a \in Client, LinkDrops(a)
  PROVE  ClientInv(a)'
<1>1. TypeOK /\ Offline(a) /\ Notices(a) /\ Games(a) /\ Lists(a)
  BY DEF LeaderboardInv, ClientInv
<1>2a. /\ scores' = scores
       /\ pc'[a] = pc[a] /\ played'[a] = played[a]
       /\ res'[a] = res[a] /\ shown'[a] = shown[a]
       /\ notice'[a] = notice[a]
  BY <1>1 DEF LinkDrops, TypeOK
<1>2b. is_connected_'[a] = is_connected_[a] /\ whole'[a] = whole[a]
  BY <1>1 DEF LinkDrops, TypeOK
<1>2c. link[a] /\ ~link'[a]
  BY <1>1 DEF LinkDrops, TypeOK
<1>3. Offline(a)'
  BY <1>1, <1>2a, <1>2b, <1>2c DEF Offline
<1>4. Notices(a)'
  BY <1>1, <1>2a, <1>2b, <1>2c DEF Notices
<1>5. Games(a)'
  BY <1>1, <1>2a, <1>2b, <1>2c DEF Games
<1>6. Lists(a)'
  BY <1>1, <1>2a, <1>2b, <1>2c DEF Lists
<1> QED
  BY <1>3, <1>4, <1>5, <1>6 DEF ClientInv

-----------------------------------------------------------------------------
(* The types                                                                *)

LEMMA StepTypes ==
  ASSUME LeaderboardInv, NEW a \in Client, Step(a)
  PROVE  TypeOK'
<1>1. /\ TypeOK /\ Offline(a) /\ Notices(a)
  BY DEF LeaderboardInv, ClientInv
<1>2. scores' \in Seq(Row)
  BY TableGrows
<1>3. /\ pc' \in [Client -> {"connect", "menu", "form", "insert", "populate",
                             "fetch"}]
      /\ is_connected_' \in [Client -> BOOLEAN]
      /\ link' \in [Client -> BOOLEAN]
      /\ whole' \in [Client -> BOOLEAN]
  BY <1>1 DEF TypeOK, Step, Connect, FailToConnect, Play, HandleReturn, HandleSend,
              ExecuteStored, ExecuteRefused, Populate, Answered, SelectRefused,
              FetchRow, FetchEnd, FetchFails, LinkDrops
<1>4. played' \in [Client -> 0..MaxGames]
  <2>1. CASE Play(a)
    <3>1. played \in [Client -> 0..MaxGames]
      BY <1>1 DEF TypeOK
    <3>2. played[a] < MaxGames /\ played' = [played EXCEPT ![a] = played[a] + 1]
      BY <2>1 DEF Play
    <3>3. played[a] + 1 \in 0..MaxGames
      BY <3>1, <3>2, LeaderboardAssumption
    <3> QED
      BY <3>1, <3>2, <3>3
  <2>2. CASE ~Play(a)
    BY <1>1, <2>2
       DEF TypeOK, Step, Connect, FailToConnect, HandleReturn, HandleSend,
           ExecuteStored, ExecuteRefused, Populate, Answered, SelectRefused,
           FetchRow, FetchEnd, FetchFails, LinkDrops
  <2> QED
    BY <2>1, <2>2
<1>5. /\ res' \in [Client -> Seq(Row)] /\ shown' \in [Client -> Seq(Row)]
  <2>1. CASE FetchRow(a)
    <3>1. /\ res \in [Client -> Seq(Row)] /\ shown \in [Client -> Seq(Row)]
          /\ res[a] \in Seq(Row) /\ shown[a] \in Seq(Row)
      BY <1>1 DEF TypeOK
    <3>2. Tail(res[a]) \in Seq(Row) /\ Append(shown[a], Head(res[a])) \in Seq(Row)
      BY <2>1, <3>1, TakeHead, AppendElement DEF FetchRow
    <3> QED
      BY <2>1, <3>1, <3>2 DEF FetchRow
  <2>2. CASE ~FetchRow(a)
    <3>1. <<>> \in Seq(Row) /\ scores \in Seq(Row)
      BY <1>1, EmptySeq DEF TypeOK
    <3>2. res \in [Client -> Seq(Row)] /\ shown \in [Client -> Seq(Row)]
      BY <1>1 DEF TypeOK
    <3>3. CASE Populate(a)
      <4>1. shown' = [shown EXCEPT ![a] = <<>>]
        BY <3>3 DEF Populate
      <4>2. \/ res' = res
            \/ res' = [res EXCEPT ![a] = scores]
        BY <3>3 DEF Populate, Answered, SelectRefused
      <4> QED
        BY <3>1, <3>2, <4>1, <4>2
    <3>4. CASE FetchEnd(a) \/ FetchFails(a)
      BY <3>1, <3>2, <3>4 DEF FetchEnd, FetchFails
    <3>5. CASE ~Populate(a) /\ ~FetchEnd(a) /\ ~FetchFails(a)
      BY <2>2, <3>2, <3>5
         DEF Step, Connect, FailToConnect, Play, HandleReturn, HandleSend,
             ExecuteStored, ExecuteRefused, LinkDrops
    <3> QED
      BY <3>3, <3>4, <3>5
  <2> QED
    BY <2>1, <2>2
<1>6. notice' \in [Client -> {"none", "failed to connect", "not connected"}]
  BY <1>1 DEF TypeOK, Step, Connect, FailToConnect, Play, HandleReturn, HandleSend,
              ExecuteStored, ExecuteRefused, Populate, Answered, SelectRefused,
              FetchRow, FetchEnd, FetchFails, LinkDrops
<1>7. ASSUME NEW c \in Client
      PROVE  notice'[c] = "none" \/ shown'[c] = <<>>
  <2>1. notice[c] = "none" \/ shown[c] = <<>>
    BY <1>1 DEF TypeOK
  <2>2. CASE c # a
    BY <1>1, <2>1, <2>2
       DEF TypeOK, Step, Connect, FailToConnect, Play, HandleReturn, HandleSend,
           ExecuteStored, ExecuteRefused, Populate, Answered, SelectRefused,
           FetchRow, FetchEnd, FetchFails, LinkDrops
  <2>3. CASE c = a /\ (FailToConnect(a) \/ Populate(a) \/ FetchRow(a))
    <3>1. FailToConnect(a) => notice[a] = "none" \/ shown[a] = <<>>
      BY <2>1, <2>3
    <3>2. FailToConnect(a) => shown'[a] = <<>>
      BY <1>1 DEF FailToConnect, Offline, Notices
    <3>3. Populate(a) => shown'[a] = <<>>
      BY <1>1 DEF Populate, TypeOK
    <3>4. FetchRow(a) => notice'[a] = "none"
      BY <1>1 DEF FetchRow, Notices
    <3> QED
      BY <2>3, <3>2, <3>3, <3>4
  <2>4. CASE c = a /\ ~(FailToConnect(a) \/ Populate(a) \/ FetchRow(a))
    BY <2>1, <2>4 DEF Step, Connect, Play, HandleReturn, HandleSend,
                      ExecuteStored, ExecuteRefused, FetchEnd, FetchFails, LinkDrops
  <2> QED
    BY <2>2, <2>3, <2>4
<1> QED
  BY <1>2, <1>3, <1>4, <1>5, <1>6, <1>7 DEF TypeOK

-----------------------------------------------------------------------------

LEMMA StepInv == LeaderboardInv /\ [Next]_vars => LeaderboardInv'
<1> SUFFICES ASSUME LeaderboardInv, [Next]_vars
             PROVE  LeaderboardInv'
  OBVIOUS
<1>1. ASSUME NEW a \in Client, Step(a)
      PROVE  LeaderboardInv'
  <2>1. ClientInv(a)'
    BY <1>1, ConnectKeeps, FailKeeps, PlayKeeps, LeaveFormKeeps, ExecuteKeeps,
       PopulateKeeps, FetchRowKeeps, FetchEndKeeps, LinkDropsKeeps DEF Step
  <2>2. \A c \in Client : ClientInv(c)'
    BY <1>1, <2>1, OthersKeepClient
  <2> QED
    BY <1>1, <2>2, StepTypes, TableGrows DEF LeaderboardInv
<1>2. CASE UNCHANGED vars
  BY <1>2 DEF vars, LeaderboardInv, TypeOK,
              ClientInv, Offline, Notices, Games, Lists
<1> QED
  BY <1>1, <1>2 DEF Next

LEMMA InvHolds == Spec => []LeaderboardInv
BY InitInv, StepInv, PTL DEF Spec

\* The table, the lists and the screens keep their types.
THEOREM TypeIsOK == Spec => []TypeOK
<1>1. LeaderboardInv => TypeOK
  BY DEF LeaderboardInv
<1> QED
  BY <1>1, InvHolds, PTL

\* handleSend need not look at the result of its INSERT: populateLeaderboard
\* tells the player what became of the score (BaseCommandFrameListener.cpp
\* 569-614 and 847-872), for any number of players writing at the same time, if
\* the SELECT is answered to its end.
THEOREM OwnScoresAlwaysTold == Spec => []OwnScoresAreTold
<1>1. LeaderboardInv => OwnScoresAreTold
  <2> SUFFICES ASSUME LeaderboardInv, NEW c \in Client, AtMenu(c), whole[c]
               PROVE  Own(c, shown[c]) = Own(c, scores)
    BY DEF OwnScoresAreTold
  <2>1. res[c] = <<>> /\ ToSet(shown[c]) \subseteq ToSet(scores)
    BY DEF LeaderboardInv, ClientInv, Lists, AtMenu
  <2>2. \A r \in ToSet(scores) : r[1] = c => r \in ToSet(shown[c]) \cup ToSet(res[c])
    BY DEF LeaderboardInv, ClientInv, Lists, AtMenu
  <2> QED
    BY <2>1, <2>2, NothingInEmpty DEF Own
<1> QED
  BY <1>1, InvHolds, PTL

\* The list box says that scores are not saved exactly to those whose are not.
THEOREM UnsavedIsAlwaysSaid == Spec => []UnsavedIsSaid
<1>1. LeaderboardInv => UnsavedIsSaid
  BY DEF LeaderboardInv, ClientInv, Offline, Notices, UnsavedIsSaid, AtMenu, Own
<1> QED
  BY <1>1, InvHolds, PTL

\* No lost answer and no interleaving makes a row appear twice.
THEOREM AlwaysSavedAndShownOnce == Spec => []SavedAndShownOnce
<1>1. LeaderboardInv => SavedAndShownOnce
  BY DEF LeaderboardInv, ClientInv, Lists, SavedAndShownOnce
<1> QED
  BY <1>1, InvHolds, PTL

-----------------------------------------------------------------------------
(* The handlers come to their end                                           *)

\* The parts of handleSend and populateLeaderboard that are still to come.
PartsLeft == [menu |-> 0, fetch |-> 1, populate |-> 2, insert |-> 3]

InHandler(c) == pc[c] \in {"insert", "populate", "fetch"}

\* While a handler of player c runs, no step of anybody takes it back: it is
\* left where it is, or goes on to a later part, or has a row less to fetch.
\* What the others write meanwhile makes none of its loops longer.
HandlersShrink ==
  [][\A c \in Client : InHandler(c) =>
       \/ pc'[c] = pc[c] /\ res'[c] = res[c]
       \/ pc'[c] \in DOMAIN PartsLeft /\ PartsLeft[pc'[c]] < PartsLeft[pc[c]]
       \/ pc[c] = "fetch" /\ pc'[c] = "fetch" /\ Len(res'[c]) < Len(res[c])]_vars

\* A row that was fetched is not fetched again.
LEMMA TailIsShorter ==
  ASSUME NEW S, NEW s \in Seq(S), s # <<>>
  PROVE  Len(Tail(s)) < Len(s)
BY HeadTailProperties, EmptySeq, LenProperties

LEMMA StepShrinks ==
  ASSUME TypeOK, NEW a \in Client, Step(a), NEW c \in Client, InHandler(c)
  PROVE  \/ pc'[c] = pc[c] /\ res'[c] = res[c]
         \/ pc'[c] \in DOMAIN PartsLeft /\ PartsLeft[pc'[c]] < PartsLeft[pc[c]]
         \/ pc[c] = "fetch" /\ pc'[c] = "fetch" /\ Len(res'[c]) < Len(res[c])
<1>1. CASE c # a
  BY <1>1 DEF TypeOK, Step, Connect, FailToConnect, Play, HandleReturn, HandleSend,
              ExecuteStored, ExecuteRefused, Populate, Answered, SelectRefused,
              FetchRow, FetchEnd, FetchFails, LinkDrops
<1>2. CASE c = a
  <2>1. ~Connect(a) /\ ~FailToConnect(a) /\ ~Play(a)
        /\ ~HandleReturn(a) /\ ~HandleSend(a)
    BY <1>2 DEF InHandler, Connect, FailToConnect, Play, HandleReturn, HandleSend
  <2>2. CASE ExecuteStored(a) \/ ExecuteRefused(a)
    <3>1. pc[c] = "insert" /\ pc'[c] = "populate"
      BY <1>2, <2>2 DEF TypeOK, ExecuteStored, ExecuteRefused
    <3> QED
      BY <3>1 DEF PartsLeft
  <2>3. CASE Populate(a)
    <3>1. pc[c] = "populate" /\ pc'[c] \in {"fetch", "menu"}
      BY <1>2, <2>3 DEF TypeOK, Populate, Answered, SelectRefused
    <3> QED
      BY <3>1 DEF PartsLeft
  <2>4. CASE FetchRow(a)
    <3>1. pc[c] = "fetch" /\ pc'[c] = "fetch" /\ res'[c] = Tail(res[c])
      BY <1>2, <2>4 DEF TypeOK, FetchRow
    <3>2. res[c] \in Seq(Row) /\ res[c] # <<>>
      BY <1>2, <2>4 DEF TypeOK, FetchRow
    <3> QED
      BY <3>1, <3>2, TailIsShorter
  <2>5. CASE FetchEnd(a) \/ FetchFails(a)
    <3>1. pc[c] = "fetch" /\ pc'[c] = "menu"
      BY <1>2, <2>5 DEF TypeOK, FetchEnd, FetchFails
    <3> QED
      BY <3>1 DEF PartsLeft
  <2>6. CASE LinkDrops(a)
    BY <2>6 DEF LinkDrops
  <2> QED
    BY <2>1, <2>2, <2>3, <2>4, <2>5, <2>6 DEF Step
<1> QED
  BY <1>1, <1>2

\* The loop of populateLeaderboard (lines 569-614) is over the rows of one
\* result, which no other player adds to: the safety half of HandlersReturn.
THEOREM HandlersAlwaysShrink == Spec => HandlersShrink
<1> DEFINE Shrinks ==
      \A c \in Client : InHandler(c) =>
        \/ pc'[c] = pc[c] /\ res'[c] = res[c]
        \/ pc'[c] \in DOMAIN PartsLeft /\ PartsLeft[pc'[c]] < PartsLeft[pc[c]]
        \/ pc[c] = "fetch" /\ pc'[c] = "fetch" /\ Len(res'[c]) < Len(res[c])
<1>1. TypeOK /\ Next => Shrinks
  BY StepShrinks DEF Next
<1>2. TypeOK /\ [Next]_vars => [Shrinks]_vars
  BY <1>1
<1> QED
  BY <1>2, TypeIsOK, PTL DEF Spec, HandlersShrink
==============================================================================
