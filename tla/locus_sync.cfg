CONSTANTS
  a = a  b = b
  i0 = i0  i1 = i1  g1 = g1  j0 = j0  j1 = j1  f0 = f0
  x = x  y = y
  k1 = k1  k2 = k2
  t1 = t1  t2 = t2
  NoId = NoId
  NoCell = NoCell
  Ids = {i0, i1, g1, j0, j1, f0}
  Streams = {a, b}
  Packet <- MCPackets
  Cells = {x, y}
  Chunks = {k1, k2}
  ChunksOf <- MCChunksOf
  Installs = {t1, t2}
  MaxU64 = 1
  MaxTime = 1
  MaxFaults = 1
SPECIFICATION FairSpec
INVARIANT OneChain
INVARIANT ManifestsComplete
INVARIANT RevokedReadsNothing
PROPERTY ImplementsJournal
PROPERTY UnobstructedArrive
