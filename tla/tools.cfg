SPECIFICATION Spec
CONSTANTS
  ByteSize = 4
  Families = {2}
  Terminator = 3
  MaxPayload = 3
  Ids = {"pose", "hand"}
  FirstRows <- MCFirstRows
  Confirmers = {c1, c2}
  Overrides <- MCOverrides
  RawFrames <- MCRawFrames
  Stamps = {1, 2}
  Templates <- MCTemplates
  MaxSends = 2
  MaxEdits = 1
  c1 = c1
  c2 = c2
  Codes <- MCCodes
  Variations <- MCVariations
  Motions = {"raise", "none"}
  Repeats = 2
  RetryLimit = 2
  MaxTrouble = 2
  Bodies <- MCBodies
  Ways = {"clip", "pcm", "raw", "av", "named"}
  ReadSize = 3
  MaxClip = 5
  FrameBytes = 2
  BlockFrames = 2
  AvReads = {1, 4}
  Clients = {k1, k2, k3, k4}
  Readers = {r1, r2}
  Sender = tick
  Chunks = 2
  ReadTimeout = 2
  WriteTimeout = 2
  NoClient = none
  MaxLost = 1
INVARIANTS GateKept Backed ReproducedOnly NothingLeft AudioIsBody OutcomeOfBody SendBounded LinkKept
PROPERTIES OnlyAppends ObserveEnds
CHECK_DEADLOCK FALSE
