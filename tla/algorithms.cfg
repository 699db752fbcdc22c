SPECIFICATION Spec
CONSTANTS
  MaxPiece = 3
  MaxText = 8
  MaxTokens = 3
  OverlapTokens = 1
  MinChunkTokens = 2
  UnitTokens = {0, 1, 2, 3}
  MaxUnits = 5
  short = short
  long = long
  None = None
  Chunks = {1, 2, 3}
  Docs = {1, 2}
  Texts = {short, long}
  Near = {5, 15}
  Matching = {short}
  Length <- MCLength
  Envelope = 2
  CharsPerToken = 2
  MaxContextChars = 8
  Options <- MCOptions
  Passages = {1, 2}
  Orgs = {1, 2}
  Teams = {1}
  Everyone = Everyone
  Nobody = Nobody
  Beginnings = {short, long}
  TopK = 1
INVARIANT CutAnyhow
INVARIANT ChunksWhole
INVARIANT NothingLost
INVARIANT ContextHolds
INVARIANT FederationHolds
