CONSTANTS
  r1 = r1  r2 = r2  r3 = r3
  da = da  db = db
  g1 = g1  g2 = g2
  A = A  B = B  C = C
  pa = pa  pb = pb  none = none
  Devices = {da, db}
  Reports = {r1, r2, r3}
  ReportedBy <- ReportedByMC
  Games = {g1, g2}
  GameOf <- GameOfMC
  Teams = {A, B, C}
  Home <- HomeMC
  Guest <- GuestMC
  Players = {pa, pb}
  Involved <- InvolvedMC
  TeamOf <- TeamOfMC
  NotPut = NotPut
  TeamOrder <- TeamOrderMC
  Flaky = {db}
  Killable = {da}
SPECIFICATION FairSpec
INVARIANTS TypeOK Balanced PlayersCounted NeverOvercounted RankedBetweenGames
 
CHECK_DEADLOCK FALSE
