----------------------------- MODULE Leaderboard -----------------------------
(***************************************************************************)
(* The shared table of scores and the players who write to and read it: the *)
(* connection that the constructor of BaseCommandFrameListener opens,       *)
(* populateLeaderboard, handleReturn and handleSend, in                     *)
(* src/BaseCommand/src/BaseCommandFrameListener.cpp, over MySQL++ 3.0.8.    *)
(*                                                                          *)
(* Every call to the server is a step of its own, so that other players'    *)
(* calls and the loss of the connection come between.  The connection is    *)
(* made without exceptions (line 5), is opened once and never again, and    *)
(* DBDriver::connected() says that it was opened, not that it still is.     *)
(* The order of the rows (ORDER BY) and their text are left out.            *)
(***************************************************************************)
EXTENDS Naturals, Sequences, SequencesExt

CONSTANTS
  Client,   \* the running games
  MaxGames  \* bound: the games each of them plays to the end

ASSUME LeaderboardAssumption == MaxGames \in Nat

VARIABLES
  pc,            \* what is on screen, or the call that has not returned
  is_connected_, \* of DBDriver
  link,          \* TRUE while the server can be reached
  played,        \* how many games ended
  scores,        \* the rows of the table, <<client, game>>
  res,           \* what the server still has to deliver of a SELECT
  shown,         \* the rows in MainMenu/LeaderboardsListbox
  notice,        \* the message in the same list
  whole          \* history: the last SELECT was answered to its end

vars == <<pc, is_connected_, link, played, scores, res, shown, notice, whole>>

Row == Client \X (1..MaxGames)

-----------------------------------------------------------------------------

Init ==
  /\ pc = [c \in Client |-> "connect"]
  /\ is_connected_ = [c \in Client |-> FALSE]
  /\ link = [c \in Client |-> FALSE]
  /\ played = [c \in Client |-> 0]
  /\ scores = <<>>
  /\ res = [c \in Client |-> <<>>]
  /\ shown = [c \in Client |-> <<>>]
  /\ notice = [c \in Client |-> "none"]
  /\ whole = [c \in Client |-> FALSE]

\* The constructor, when the server answers.
Connect(c) ==
  /\ pc[c] = "connect"
  /\ is_connected_' = [is_connected_ EXCEPT ![c] = TRUE]
  /\ link' = [link EXCEPT ![c] = TRUE]
  /\ pc' = [pc EXCEPT ![c] = "populate"]
  /\ UNCHANGED <<played, scores, res, shown, notice, whole>>

\* The constructor, when it does not.
FailToConnect(c) ==
  /\ pc[c] = "connect"
  /\ notice' = [notice EXCEPT ![c] = "failed to connect"]
  /\ pc' = [pc EXCEPT ![c] = "menu"]
  /\ UNCHANGED <<is_connected_, link, played, scores, res, shown, whole>>

\* A game, from the menu to the GameOver sheet.
Play(c) ==
  /\ pc[c] = "menu"
  /\ played[c] < MaxGames
  /\ played' = [played EXCEPT ![c] = @ + 1]
  /\ pc' = [pc EXCEPT ![c] = "form"]
  /\ UNCHANGED <<is_connected_, link, scores, res, shown, notice, whole>>

HandleReturn(c) ==
  /\ pc[c] = "form"
  /\ pc' = [pc EXCEPT ![c] = "populate"]
  /\ UNCHANGED <<is_connected_, link, played, scores, res, shown, notice, whole>>

\* Mutant: Send works without a game played.
HandleSendAnywhere(c) ==
  /\ pc[c] \in {"form", "menu"}
  /\ pc' = [pc EXCEPT ![c] = IF is_connected_[c] THEN "insert" ELSE "populate"]
  /\ UNCHANGED <<is_connected_, link, played, scores, res, shown, notice, whole>>

\* Where handleSend goes next: to the INSERT or past it.
HandleSend(c) ==
  /\ pc[c] = "form"
  /\ pc' = [pc EXCEPT ![c] = IF is_connected_[c] THEN "insert" ELSE "populate"]
  /\ UNCHANGED <<is_connected_, link, played, scores, res, shown, notice, whole>>

\* Mutant: the list is not read again after the INSERT.
ExecuteStoredUnread(c) ==
  /\ pc[c] = "insert"
  /\ link[c]
  /\ scores' = Append(scores, <<c, played[c]>>)
  /\ \E answered \in BOOLEAN : link' = [link EXCEPT ![c] = answered]
  /\ pc' = [pc EXCEPT ![c] = "menu"]
  /\ UNCHANGED <<is_connected_, played, res, shown, notice, whole>>

\* The INSERT reaches the table; its answer may be lost with the connection.
\* The result is not looked at.
ExecuteStored(c) ==
  /\ pc[c] = "insert"
  /\ link[c]
  /\ scores' = Append(scores, <<c, played[c]>>)
  /\ \E answered \in BOOLEAN : link' = [link EXCEPT ![c] = answered]
  /\ pc' = [pc EXCEPT ![c] = "populate"]
  /\ UNCHANGED <<is_connected_, played, res, shown, notice, whole>>

\* The server cannot be reached, or does not accept the statement.
ExecuteRefused(c) ==
  /\ pc[c] = "insert"
  /\ pc' = [pc EXCEPT ![c] = "populate"]
  /\ UNCHANGED <<is_connected_, link, played, scores, res, shown, notice, whole>>

\* The answer to the SELECT: the rows that the table holds now are to be
\* fetched.
Answered(c) ==
  /\ link[c]
  /\ res' = [res EXCEPT ![c] = scores]
  /\ pc' = [pc EXCEPT ![c] = "fetch"]

\* query.use() is false: the server cannot be reached, or refuses the SELECT on
\* a connection that is up.  populateLeaderboard has no branch for it.
SelectRefused(c) ==
  /\ pc' = [pc EXCEPT ![c] = "menu"]
  /\ UNCHANGED res

\* Mutant: populateLeaderboard asks without testing connected().
PopulateUntested(c) ==
  /\ pc[c] = "populate"
  /\ shown' = [shown EXCEPT ![c] = <<>>]
  /\ whole' = [whole EXCEPT ![c] = FALSE]
  /\ notice' = [notice EXCEPT ![c] = "none"]
  /\ Answered(c) \/ SelectRefused(c)
  /\ UNCHANGED <<is_connected_, link, played, scores>>

\* Mutant: the list is not emptied first.
PopulateUnpurged(c) ==
  /\ pc[c] = "populate"
  /\ whole' = [whole EXCEPT ![c] = FALSE]
  /\ \/ /\ is_connected_[c]
        /\ notice' = [notice EXCEPT ![c] = "none"]
        /\ Answered(c) \/ SelectRefused(c)
     \/ /\ ~is_connected_[c]
        /\ notice' = [notice EXCEPT ![c] = "not connected"]
        /\ pc' = [pc EXCEPT ![c] = "menu"]
        /\ UNCHANGED res
  /\ UNCHANGED <<is_connected_, link, played, scores, shown>>

\* populateLeaderboard up to the loop: the list is emptied, and the table asked
\* for.
Populate(c) ==
  /\ pc[c] = "populate"
  /\ shown' = [shown EXCEPT ![c] = <<>>]
  /\ whole' = [whole EXCEPT ![c] = FALSE]
  /\ \/ /\ is_connected_[c]
        /\ notice' = [notice EXCEPT ![c] = "none"]
        /\ Answered(c) \/ SelectRefused(c)
     \/ /\ ~is_connected_[c]
        /\ notice' = [notice EXCEPT ![c] = "not connected"]
        /\ pc' = [pc EXCEPT ![c] = "menu"]
        /\ UNCHANGED res
  /\ UNCHANGED <<is_connected_, link, played, scores>>

\* One turn of the loop over res.fetch_row().  Rows that the client library
\* has received are still delivered after the connection is gone.
FetchRow(c) ==
  /\ pc[c] = "fetch"
  /\ res[c] # <<>>
  /\ shown' = [shown EXCEPT ![c] = Append(@, Head(res[c]))]
  /\ res' = [res EXCEPT ![c] = Tail(@)]
  /\ UNCHANGED <<pc, is_connected_, link, played, scores, notice, whole>>

\* fetch_row returns no row because there are no more.
FetchEnd(c) ==
  /\ pc[c] = "fetch"
  /\ res[c] = <<>>
  /\ whole' = [whole EXCEPT ![c] = TRUE]
  /\ pc' = [pc EXCEPT ![c] = "menu"]
  /\ UNCHANGED <<is_connected_, link, played, scores, res, shown, notice>>

\* Mutant: a list that breaks off is asked for again.
FetchFailsRetries(c) ==
  /\ pc[c] = "fetch"
  /\ res' = [res EXCEPT ![c] = <<>>]
  /\ pc' = [pc EXCEPT ![c] = "populate"]
  /\ UNCHANGED <<is_connected_, link, played, scores, shown, notice, whole>>

\* fetch_row returns no row because the server sent an error, or the connection
\* is gone.  The loop cannot tell.
FetchFails(c) ==
  /\ pc[c] = "fetch"
  /\ res' = [res EXCEPT ![c] = <<>>]
  /\ pc' = [pc EXCEPT ![c] = "menu"]
  /\ UNCHANGED <<is_connected_, link, played, scores, shown, notice, whole>>

\* The connection is lost.  Nothing tells the program.
LinkDrops(c) ==
  /\ link[c]
  /\ link' = [link EXCEPT ![c] = FALSE]
  /\ UNCHANGED <<pc, is_connected_, played, scores, res, shown, notice, whole>>

Step(c) ==
  \/ Connect(c) \/ FailToConnect(c)
  \/ Play(c) \/ HandleReturn(c) \/ HandleSend(c)
  \/ ExecuteStored(c) \/ ExecuteRefused(c)
  \/ Populate(c) \/ FetchRow(c) \/ FetchEnd(c) \/ FetchFails(c)
  \/ LinkDrops(c)

Next == \E c \in Client : Step(c)

Spec == Init /\ [][Next]_vars

\* The calls to the client library return, in the end with an error; what the
\* player clicks is not fair.
Handler(c) == \/ ExecuteStored(c) \/ ExecuteRefused(c)
              \/ Populate(c)
              \/ FetchRow(c) \/ FetchEnd(c) \/ FetchFails(c)

FairSpec == Spec /\ \A c \in Client : WF_vars(Handler(c))

-----------------------------------------------------------------------------

\* The rows of player c among a list of rows.
Own(c, rows) == {r \in ToSet(rows) : r[1] = c}

AtMenu(c) == pc[c] = "menu"

\* Every variable has its type, and the list box holds rows or a message.
TypeOK ==
  /\ pc \in [Client -> {"connect", "menu", "form", "insert", "populate", "fetch"}]
  /\ is_connected_ \in [Client -> BOOLEAN]
  /\ link \in [Client -> BOOLEAN]
  /\ played \in [Client -> 0..MaxGames]
  /\ scores \in Seq(Row)
  /\ res \in [Client -> Seq(Row)]
  /\ shown \in [Client -> Seq(Row)]
  /\ notice \in [Client -> {"none", "failed to connect", "not connected"}]
  /\ whole \in [Client -> BOOLEAN]
  /\ \A c \in Client : notice[c] = "none" \/ shown[c] = <<>>

\* handleSend throws the result of the INSERT away, but then reads the table
\* back: a player in the menu whose list was answered to its end sees those of
\* his scores that were saved and none that were not, whatever became of the
\* answer to the INSERT and of the connection.
OwnScoresAreTold ==
  \A c \in Client : AtMenu(c) /\ whole[c] => Own(c, shown[c]) = Own(c, scores)

\* The message of the constructor and that of populateLeaderboard keep their
\* word: a player sees one of them in the menu exactly when the connection was
\* never made, and then no score of his is saved.
UnsavedIsSaid ==
  \A c \in Client :
    /\ AtMenu(c) => (notice[c] = "none" <=> is_connected_[c])
    /\ ~is_connected_[c] => Own(c, scores) = {}

\* A score is saved at most once, and no row is shown twice or shown without
\* being saved, whatever is lost and however the players' calls interleave.
SavedAndShownOnce ==
  /\ IsInjective(scores)
  /\ \A c \in Client :
       /\ IsInjective(shown[c])
       /\ ToSet(shown[c]) \subseteq ToSet(scores)

\* The handlers run on the thread that draws: whatever is lost, and however
\* much the others write meanwhile, they end, and the player has the menu back.
HandlersReturn ==
  \A c \in Client : pc[c] \in {"insert", "populate", "fetch"} ~> AtMenu(c)
=============================================================================
