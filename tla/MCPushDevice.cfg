SPECIFICATION Spec
CONSTANTS
  ann = ann bob = bob w1 = w1 b1 = b1 r1 = r1 c1 = c1 c2 = c2
  NoPassword = NoPassword
  NoBrowser = NoBrowser
  Names = {ann, bob}
  Passwords = {w1}
  Browsers = {b1}
  Requests = {r1}
  Clicks = {c1, c2}
  MaxSessions = 2
  MaxLinks = 0
  MaxRows = 2
  MaxEndpoints = 2
INVARIANTS QuietWhenOff
SYMMETRY Alike
CHECK_DEADLOCK FALSE
