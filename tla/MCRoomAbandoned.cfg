SPECIFICATION FairSpec
CONSTANTS
  p1 = p1 p2 = p2 p3 = p3
  NoOne = NoOne
  Players = {p1, p2, p3}
  Founder = p1
  Capacity = 2
  MaxGames = 2
PROPERTIES DealtGamesEnd
CHECK_DEADLOCK FALSE
