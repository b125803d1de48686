SPECIFICATION MCSpec
CONSTANTS
  k1 = k1
  k2 = k2
  k3 = k3
  r1 = r1
  r2 = r2
  Conns = {k1, k2, k3}
  Rooms = {r1, r2}
  Names = {anon, bob}
  Anonymous = anon
  MaxAge = 1
  MaxInbox = 2
INVARIANTS RoomsTrue ViewsConverge
PROPERTIES SilentEvicted
CHECK_DEADLOCK FALSE
