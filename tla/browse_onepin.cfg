CONSTANTS
  ga = ga  gb = gb  H = H  G = G
  Games = {ga}
  Teams = {H, G}
  NoTeam = NoTeam
  MaxPins = 3
SPECIFICATION Spec
INVARIANT OnePin
CHECK_DEADLOCK FALSE
