SPECIFICATION Spec
CONSTANTS
  NumSeats = 3
  NumTiles = 7
  PoolSize = 1
  Hand <- MCHand
  TileNumber <- MCTileNumber
  Jokers = {}
  Rows <- MCRows
  TilesOf <- MCTilesOf
  Melds <- MCRows
  MeldValue <- MCMeldValue
  Proposals <- MCProposals
  Bots = {}
  MaxRequests = 2
  Drivers = {"sweep"}
INVARIANTS OneOpenTurn ResultRecordedOnce EveryVersionAccounted AnswerIsFinal DeadlineDecides
PROPERTIES AppliedAsSeen ImplementsGame
CHECK_DEADLOCK FALSE
