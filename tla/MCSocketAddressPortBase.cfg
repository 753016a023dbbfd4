CONSTANTS
  SunPathLen <- MCSunPathLen
  Inputs <- MCInputsOtherBase
  Hints <- MCHints
  MaxConns <- MCMaxConns
  BacklogLen <- MCBacklogLen
SPECIFICATION Spec
CHECK_DEADLOCK FALSE
INVARIANT
  TcpParseMatchesGrammar
