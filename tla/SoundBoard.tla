------------------------------ MODULE SoundBoard ------------------------------
(***************************************************************************)
(* What SoundManager promises its callers, without its vector, its channel  *)
(* array and its nodes to follow: files get numbers that stay theirs, and   *)
(* what is heard on a channel keeps the file and the scene node it was      *)
(* started with until it ends.                                              *)
(***************************************************************************)
EXTENDS Naturals, Sequences

CONSTANTS Key, NoKey, Node, NoNode, Channel

VARIABLES
  names,   \* the file and type of each number, from 1 on
  usable,  \* the numbers whose file could be loaded
  issued,  \* the numbers given to callers, for each key
  voice    \* what is heard on each channel

boardVars == <<names, usable, issued, voice>>

Silence == [sound |-> NoKey, node |-> NoNode]

BoardInit ==
  /\ names = <<>> /\ usable = {}
  /\ issued = [key \in Key |-> {}]
  /\ voice = [c \in Channel |-> Silence]

\* A file that has a number keeps it, also when it could not be loaded.
Reissue(k) ==
  /\ issued' = [issued EXCEPT ![names[k]] = @ \cup {k}]
  /\ UNCHANGED <<names, usable, voice>>

\* A file that has none gets the next, which the caller is told if it loads.
Register(key) ==
  LET new == Len(names) + 1
  IN  /\ \A k \in 1 .. Len(names) : names[k] # key
      /\ names' = Append(names, key)
      /\ \/ /\ usable' = usable \cup {new}
            /\ issued' = [issued EXCEPT ![key] = @ \cup {new}]
         \/ UNCHANGED <<usable, issued>>
      /\ UNCHANGED voice

\* A sound takes the channel of another only when every channel plays.
Start(c, k, node) ==
  /\ k \in usable
  /\ voice[c] = Silence \/ \A d \in Channel : voice[d] # Silence
  /\ voice' = [voice EXCEPT ![c] = [sound |-> names[k], node |-> node]]
  /\ UNCHANGED <<names, usable, issued>>

\* Sounds end of themselves, or are stopped, one or all.
End(ended) ==
  /\ voice' = [c \in Channel |-> IF c \in ended THEN Silence ELSE voice[c]]
  /\ UNCHANGED <<names, usable, issued>>

BoardNext ==
  \/ \E k \in 1 .. Len(names) : Reissue(k)
  \/ \E key \in Key : Register(key)
  \/ \E c \in Channel, k \in usable, node \in Node \cup {NoNode} : Start(c, k, node)
  \/ \E ended \in SUBSET Channel : End(ended)

BoardSpec == BoardInit /\ [][BoardNext]_boardVars
===============================================================================
