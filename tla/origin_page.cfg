\* The parts of the Origin page; two operations, two imports, two cells, two files.
SPECIFICATION MCSpec
CONSTANTS
  a1 = a1  a2 = a2
  p1 = p1  p2 = p2  t1 = t1  t2 = t2
  film = film  capture = capture  locus = locus  mesh = mesh  data = data  text = text
  ca = ca  cb = cb  cc = cc  oa = oa  past = past  present = present
  Tasks = {t1, t2}
  Tabs = {p1, p2}
  Artifacts = {a1, a2}
  Keys = {k1, k2}
  Nonces = {n1, n2}
  Chunks = {1}
  Nothing = Nothing
  Files = {film, capture, locus, mesh, data, text}
  KindOf <- MCKindOf
  Sound = {film, capture, locus, mesh}
  MaxImports = 2
  NoFile = NoFile
  Cells = {ca, cb, cc}
  Observations = {oa}
  Single = single
  Moments = {past, present}
  MomentOf <- MCMomentOf
  Present = present
  Disputed = {cb}
  Unspoken = {cb}
  SemanticOnly = {cc}
  Constrained = TRUE
  Layers = {"state", "lineage"}
  Modes = {"object", "room"}
  Depths = {50}
  NoNode = NoNode
  MaxMoments = 2
  MaxEvidence = 1
  MaxFrames = 2
  MaxKernels = 2
  MaxSeals = 1
  Core = {"shell", "authority"}
  Other = {"page"}
  Release = 2
  MaxPuts = 1
  MaxChanges = 5
  Branches = {1, 2, 3}
  Claims <- MCClaims
  NaN = NaN
  m1 = m1  m2 = m2  long = long  short = short
  MobileTabs = {m1, m2}
  Objects = {long, short}
  ChunkCount <- MCChunkCount
  NoObject = NoObject
  MaxExchanges = 2
INVARIANTS
  JournalCountsReplicated
  PublishedUnderKeptKey
  OnlyApprovedBytesRun
  RecordedPublicationIsOfArtifact
  PublishesWhatItDescribes
  OnlyOpenFileIndexed
  EvidenceOffHidesEvidence
  MomentsFormLineage
  SealedHereStaysBound
  CoreIsServed
  AcceptedIsBound
  ReplayFollowsParents
CHECK_DEADLOCK FALSE
