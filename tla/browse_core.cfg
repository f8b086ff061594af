CONSTANTS
  ga = ga  gb = gb  H = H  G = G
  Games = {ga, gb}
  Teams = {H, G}
  NoTeam = NoTeam
  MaxPins = 3
SPECIFICATION FairSpec
INVARIANTS TypeOK PinHasID PinsWatched ListedIsPinned
PROPERTY ListingShown
CHECK_DEADLOCK FALSE
