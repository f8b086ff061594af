CONSTANTS
  ma = ma  mb = mb  pq = pq  pr = pr
  c1 = c1  c2 = c2  c3 = c3  c4 = c4
  T1 = T1  T2 = T2
  Players = {ma, pq, pr}
  Founders = {ma}
  Invites <- InvitesOne
  Code <- CodeTwice
  Teams = {T1}
  NoTeam = NoTeam
  Missing = Missing
  NoPlayer = NoPlayer
  Flaky = {}
  Killable = {}
  Viewers = {ma}
  Registered = {pq, pr}
  MaxCalls = 1
  MaxPending = 4
SPECIFICATION Spec
INVARIANTS OnlyInvited
CHECK_DEADLOCK FALSE
