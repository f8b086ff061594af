CONSTANTS
  pl = pl  pm = pm  A = A
  Players = {pl, pm}
  Nobody = Nobody
  Teams = {A}
  NoTeam = NoTeam
  NotStored = NotStored
  Registered = {pl}
  MaxSignings = 2
  MaxAsked = 1
SPECIFICATION Spec
INVARIANTS TypeOK  
PROPERTY StoredSpec
CHECK_DEADLOCK FALSE
