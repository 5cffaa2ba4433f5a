SPECIFICATION TroubleSpec
CONSTANTS
  Checkouts <- Calls
  FlowOf <- Flows
  SeqOf <- Arrivals
  ClassOf <- Classes
  MaxPerKey = 2
  Conns = {1, 2, 3, 4, 5}
  NoOne = 0
  NoFlow = 0
  NoConn = 0
CHECK_DEADLOCK FALSE
INVARIANTS ExclusiveLease EntryIsSound
PROPERTIES CheckoutsAreServed
