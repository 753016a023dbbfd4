CONSTANTS
  SunPathLen <- MCSunPathLen
  Inputs <- MCInputs
  Hints <- MCHints
  MaxConns <- MCMaxConns
  BacklogLen <- MCBacklogLen
SPECIFICATION Spec
CHECK_DEADLOCK FALSE
INVARIANTS
  TypeOK
  TcpParseMatchesGrammar
  SunPathInBounds
  AbstractRoundTrip
PROPERTY AcceptReturns
