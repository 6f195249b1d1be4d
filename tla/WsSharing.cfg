SPECIFICATION FairSpec
CONSTANTS
  Writers = {w1, w2}
  Reader = Reader
  Closer = Closer
  None = None
  SockCap = 1
  MaxIn = 2
INVARIANTS FramesIntact ReaderFaithful HeldUntilPeerEnds
PROPERTIES CallReturns HeldWritesReturn
