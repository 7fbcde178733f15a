SPECIFICATION Spec
CONSTANTS
  NumSeats = 2
  NumTiles = 11
  PoolSize = 1
  Hand <- MCHand
  TileNumber <- MCTileNumber
  Jokers = {}
  Rows <- MCRows
  TilesOf <- MCTilesOf
  Melds <- MCMelds
  MeldValue <- MCMeldValue
  Me = 0
  StartRows <- MCStartRows
  OtherMoves <- MCOtherMoves
  Touched = {5, 9}
  Bounds <- MCBounds
  f1 = f1
  f2 = f2
  Slots <- MCSlots
SYMMETRY Interchangeable
INVARIANTS PageCatchesUp DraftKeepsTiles RefusedOnlyWhenLate
PROPERTIES HintIsVerdict
CHECK_DEADLOCK FALSE
