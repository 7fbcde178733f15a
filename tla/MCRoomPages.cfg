SPECIFICATION PagesSpec
CONSTANTS
  p1 = p1 p2 = p2 p3 = p3 p4 = p4
  NoOne = NoOne
  Players = {p1, p2, p3, p4}
  Founder = p1
  Capacity = 3
  MaxGames = 2
  MaxReads = 2
  MaxCompany = 2
INVARIANTS OneGameAtATime CapacityKept GamesNumbered RoomOutlivesGames StillListed
PROPERTIES SeatsAreMembers CarriedForward
SYMMETRY Others
CHECK_DEADLOCK FALSE
