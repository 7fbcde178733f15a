SPECIFICATION Spec
CONSTANTS
  NumSeats = 2
  NumTiles = 6
  PoolSize = 1
  Hand <- MCHand
  TileNumber <- MCTileNumber
  Jokers = {}
  Rows <- MCRows
  TilesOf <- MCTilesOf
  Melds <- MCRows
  MeldValue <- MCMeldValue
  Proposals <- MCProposals
  Bots = {0}
  MaxRequests = 1
  Drivers = {"sweep", "timer"}
INVARIANTS BotNeverPenalised
PROPERTIES AppliedAsSeen
CHECK_DEADLOCK FALSE
