CONSTANTS
  h1 = h1  h2 = h2  g1 = g1  k1 = k1  n1 = n1
  H = H  G = G  K = K
  ga = ga  gb = gb
  NoTeam = NoTeam
  NoGame = NoGame
  Devices = {h1, g1}
  Games = {ga}
  Teams = {H, G}
  StoredTeam <- StoredTeamOf
  MovableDevices = {}
  Killable = {}
  Flaky = {}
  ListingViewers = {h1, g1}
  MaxCalls = 1
  MaxPending = 2
SPECIFICATION Spec
INVARIANT OnlyHomeListed
CHECK_DEADLOCK FALSE
