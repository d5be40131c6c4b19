CONSTANTS
  Key = {k1, k2}
  NoKey = NoKey
  Node = {n1, n2}
  NoNode = NoNode
  Caller = {r1, r2}
  NoCaller = NoCaller
  INITIAL_VECTOR_SIZE = 2
  INCREASE_VECTOR_SIZE = 1
  MAX_SOUND_CHANNELS = 2
SPECIFICATION Spec
INVARIANT
  ChannelsAreAboveZero
