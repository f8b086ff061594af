CONSTANTS
  A = A  B = B  ga = ga
  Games = {ga}
  NoGame = NoGame
  Teams = {A, B}
  NoTeam = NoTeam
  NotStored = NotStored
  OwnTeams = {A}
  MaxLeft = 1
SPECIFICATION FairSpec
INVARIANT TypeOK
PROPERTIES NoGameMeansNone LedToLive LedToListing
CHECK_DEADLOCK FALSE
