SPECIFICATION AccountSpec
CONSTANTS
  ann = ann bob = bob w1 = w1 b1 = b1 b2 = b2 r1 = r1 r2 = r2
  NoPassword = NoPassword
  NoBrowser = NoBrowser
  Names = {ann, bob}
  Passwords = {w1}
  Browsers = {b1, b2}
  Requests = {r1, r2}
  MaxSessions = 2
  MaxLinks = 2
  MaxRows = 3
INVARIANTS ScreenIsTheSession ChangeSignsOthersOut LatestLinkWorks
SYMMETRY Alike
CHECK_DEADLOCK FALSE
