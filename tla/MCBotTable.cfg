SPECIFICATION Spec
CONSTANTS
  COLORS <- MCColors
  MAX_VALUE = 13
  Deck <- MCDeck
  HumanRows <- MCHumanRows
  MaxRack = 6
  MaxTable = 1
  MaxNodes = 100000
  Budgets = {2}
INVARIANTS ProposalsLegal PlaysTheMost
PROPERTIES JokersKeepTheirMeaning
CHECK_DEADLOCK FALSE
