CONSTANTS
  h1 = h1  h2 = h2  g1 = g1  k1 = k1  n1 = n1
  H = H  G = G  K = K
  ga = ga  gb = gb
  NoTeam = NoTeam
  NoGame = NoGame
  Devices = {h1, h2, g1, k1}
  Games = {ga}
  Teams = {H, G, K}
  StoredTeam <- StoredTeamOf
  MovableDevices = {}
  Killable = {h1, h2, g1, k1}
  Flaky = {g1}
  ListingViewers = {h1, h2, g1, k1}
  MaxCalls = 1
  MaxPending = 2
SPECIFICATION Spec
INVARIANTS TypeOK ViewIsReplay OnlyNamedMoves StartedHasGuest NoSelfPlay OneWinner GuestSideListed HistoriesOppose
PROPERTIES HomeFixed NeverRelisted BoardSpec
CHECK_DEADLOCK FALSE
