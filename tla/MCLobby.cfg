SPECIFICATION Spec
CONSTANTS
  ann = ann public_ann = public_ann
  Computer = Computer
  People = {ann, public_ann}
  NameBase <- MCNameBase
  ROOM_NAME_CANDIDATE_WINDOW = 1
  MAX_NAME_INSERT_ATTEMPTS = 3
  Capacities = {2}
  MaxRooms = 3
INVARIANTS NamesTellApart
CHECK_DEADLOCK FALSE
