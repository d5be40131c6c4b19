--------------------------- MODULE SoundFindings ----------------------------
(***************************************************************************)
(* What SoundManager.cpp says of its channels where the code does something *)
(* else: the run of this definition ends in a counterexample.               *)
(***************************************************************************)
EXTENDS SoundManager

\* assert((*channelIndex > 0) && (*channelIndex < MAX_SOUND_CHANNELS))
\* (SoundManager.cpp:516): a channel that StopSound may be given is above 0.
\* PlaySound stores what FMOD's getIndex returns, and channels count from 0.
ChannelsAreAboveZero ==
  \A r \in Caller : channelIndex[r] # INVALID_SOUND_CHANNEL
                      => channelIndex[r] \in 1 .. MAX_SOUND_CHANNELS - 1
=============================================================================
