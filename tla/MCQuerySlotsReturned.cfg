SPECIFICATION SlotsSpec
CONSTANTS
  c1 = c1
  c2 = c2
  c3 = c3
  c4 = c4
  Clients = {c1, c2, c3}
  MaxConcurrent = 2
  MaxEvents = 2
  MayLeaveEarly = TRUE
INVARIANTS
  SlotReturned
