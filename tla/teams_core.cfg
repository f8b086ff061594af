CONSTANTS
  ma = ma  mb = mb  pq = pq  pr = pr
  c1 = c1  c2 = c2  c3 = c3  c4 = c4
  T1 = T1  T2 = T2
  Players = {ma, mb, pq, pr}
  Founders = {ma, mb}
  Invites <- InvitesMC
  Code <- CodeMC
  Teams = {T1, T2}
  NoTeam = NoTeam
  Missing = Missing
  NoPlayer = NoPlayer
  Flaky = {ma}
  Killable = {mb}
  Viewers = {ma, mb}
  Registered = {pq, pr}
  MaxCalls = 1
  MaxPending = 3
SYMMETRY Ids
SPECIFICATION Spec
INVARIANTS TypeOK StoredTeamExists ManagerKeepsTeam RosterAgrees
CHECK_DEADLOCK FALSE
