SPECIFICATION FairSpec
CONSTANTS
  NumSeats = 3
  NumTiles = 13
  PoolSize = 4
  Hand <- MCHand
  TileNumber <- MCTileNumber
  Jokers <- MCJokers
  Rows <- MCRows
  TilesOf <- MCTilesOf
  Melds <- MCMelds
  MeldValue <- MCMeldValue
  Proposals <- MCProposals
INVARIANTS TypeOK TilesConserved GameIsLive NothingLaidBeforeFirstMeld ScoresSettle
PROPERTIES TilesMoveForward ResignationIsFinal GameEnds
CHECK_DEADLOCK FALSE
