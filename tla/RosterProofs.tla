------------------------------ MODULE RosterProofs ------------------------------
(***************************************************************************)
(* Theorems about Teams.tla, for any players, founders, codes, teams and   *)
(* streams that break: a manager nobody can add keeps his team, and the    *)
(* two records of who is in it agree as he sees them.  They rest on        *)
(* TeamsAssumption only.                                                   *)
(*                                                                         *)
(* Both are about what a phone sees, the server's value under the writes   *)
(* of its own queue, and the server may be told some of those a second     *)
(* time.  So the argument has two parts.  Steps of the wire change nothing *)
(* of what the phone sees (SeenWire): only it writes about its players,    *)
(* and the server has been told the last of what was sent.  Steps of a     *)
(* phone add to its queue, and what they add decides what it sees          *)
(* (PhoneRoster): no check of its own is too old, for nobody else moves    *)
(* what was checked.                                                       *)
(***************************************************************************)
EXTENDS TeamsProofs

-----------------------------------------------------------------------------
(* What a phone sees *)

(* What a phone sees of a value the server keeps and its own unsent writes  *)
(* set: the last of them, or else what the server has.  S: the places of    *)
(* such writes in the queue, v: what the write in each place sets, x: the   *)
(* server's value, y: what is seen.                                         *)
IsSeen(S, v, x, y) ==
  IF S = {} THEN y = x ELSE \E i \in S : (\A j \in S : j <= i) /\ y = v[i]

(* The server has been told the last of the first n writes. *)
Told(S, v, n, x) ==
  \A i \in S : i <= n /\ (\A j \in S : j <= n => j <= i) => x = v[i]

LEMMA SeenOnce ==
  ASSUME NEW S, S \subseteq Nat, NEW v, NEW x, NEW y, NEW z,
         IsSeen(S, v, x, y), IsSeen(S, v, x, z)
  PROVE  y = z
<1>1. CASE S # {}
  <2>1. PICK i \in S : (\A j \in S : j <= i) /\ y = v[i]
    BY <1>1 DEF IsSeen
  <2>2. PICK k \in S : (\A j \in S : j <= k) /\ z = v[k]
    BY <1>1 DEF IsSeen
  <2>3. i = k
    BY <2>1, <2>2
  <2> QED
    BY <2>1, <2>2, <2>3
<1> QED
  BY <1>1 DEF IsSeen

(* Of N writes the first n were known to the server; now k are, and the     *)
(* first d are acknowledged.  The server's value x stays, or becomes that   *)
(* of the k-th, or is about to be set by all of those in S.                 *)
Follows(N, d, S, n, n2, k, S2, v, v2, x, x2) ==
  /\ N \in Nat /\ d \in {0, 1} /\ S \subseteq 1 .. N /\ n \in Nat /\ n2 \in Nat
  /\ k \in Nat /\ k = n2 + d
  /\ S2 = {i \in 1 .. N - d : i + d \in S}
  /\ \A i \in 1 .. N - d : v2[i] = v[i + d]
  /\ Told(S, v, n, x)
  /\ \/ x2 = x /\ (k = 0 \/ k = n \/ (k = n + 1 /\ k \notin S))
     \/ k \in S /\ x2 = v[k]
     \/ S # {} /\ \A i \in S : i > k

LEMMA SeenWire ==
  ASSUME NEW N, NEW d, NEW S, NEW n, NEW n2, NEW k, NEW S2, NEW v, NEW v2, NEW x, NEW x2,
         Follows(N, d, S, n, n2, k, S2, v, v2, x, x2)
  PROVE  /\ Told(S2, v2, n2, x2)
         /\ \A y : IsSeen(S, v, x, y) => IsSeen(S2, v2, x2, y)
<1> USE DEF Follows
<1>1. \A i \in S : i \in Nat /\ i >= 1 /\ i <= N
  OBVIOUS
<1>2. Told(S, v, k, x2)
  <2>1. SUFFICES ASSUME NEW i \in S, i <= k, \A j \in S : j <= k => j <= i
                 PROVE  x2 = v[i]
    BY DEF Told
  <2>2. CASE k \in S /\ x2 = v[k]
    <3>1. k <= i
      BY <2>1, <2>2
    <3>2. i = k
      BY <1>1, <2>1, <3>1
    <3> QED
      BY <2>2, <3>2
  <2>3. CASE S # {} /\ \A j \in S : j > k
    BY <1>1, <2>1, <2>3
  <2>4. CASE x2 = x /\ (k = 0 \/ k = n)
    BY <1>1, <2>1, <2>4 DEF Told
  <2>5. CASE x2 = x /\ k = n + 1 /\ k \notin S
    <3>1. \A j \in S : j <= k <=> j <= n
      BY <1>1, <2>5
    <3> QED
      BY <2>1, <2>5, <3>1 DEF Told
  <2> QED
    BY <2>2, <2>3, <2>4, <2>5
<1>3. \A j \in S : j > d => j - d \in S2 /\ (j - d) + d = j
  BY <1>1
<1>4. \A j \in S : ~(j > d) => j = 1 /\ d = 1
  BY <1>1
<1>5. Told(S2, v2, n2, x2)
  <2>1. SUFFICES ASSUME NEW i \in S2, i <= n2, \A j \in S2 : j <= n2 => j <= i
                 PROVE  x2 = v2[i]
    BY DEF Told
  <2>2. i + d \in S /\ i \in Nat /\ i >= 1 /\ v2[i] = v[i + d] /\ i + d <= k
    BY <2>1
  <2>3. ASSUME NEW j \in S, j <= k PROVE j <= i + d
    <3>1. CASE j > d
      <4>1. j - d \in S2 /\ j - d <= n2
        BY <1>1, <1>3, <2>3, <3>1
      <4> QED
        BY <1>1, <2>1, <2>2, <4>1
    <3>2. CASE ~(j > d)
      BY <1>4, <2>2, <3>2
    <3> QED
      BY <3>1, <3>2
  <2>4. PICK m \in S : m = i + d
    BY <2>2
  <2> QED
    BY <1>2, <2>2, <2>3, <2>4 DEF Told
<1>6. ASSUME NEW y, IsSeen(S, v, x, y) PROVE IsSeen(S2, v2, x2, y)
  <2>1. CASE S = {}
    BY <1>2, <1>6, <2>1 DEF IsSeen
  <2>2. CASE S # {}
    <3>1. PICK i \in S : (\A j \in S : j <= i) /\ y = v[i]
      BY <1>6, <2>2 DEF IsSeen
    <3>2. CASE i > d
      <4>1. i - d \in S2 /\ v2[i - d] = v[i]
        BY <1>3, <3>2
      <4>2. \A j \in S2 : j <= i - d
        BY <1>1, <3>1
      <4> QED
        BY <3>1, <4>1, <4>2 DEF IsSeen
    <3>3. CASE ~(i > d)
      <4>1. i = 1 /\ d = 1 /\ S2 = {}
        BY <1>1, <1>4, <3>1, <3>3
      <4>2. 1 <= k
        BY <4>1
      <4>3. x2 = v[i]
        BY <1>1, <1>2, <3>1, <4>1, <4>2 DEF Told
      <4> QED
        BY <3>1, <4>1, <4>3 DEF IsSeen
    <3> QED
      BY <3>2, <3>3
  <2> QED
    BY <2>1, <2>2
<1> QED
  BY <1>5, <1>6

LEMMA LastIsSeen ==
  ASSUME NEW N \in Nat, NEW S, S \subseteq 1 .. N, S # {}, NEW v, NEW x
  PROVE  IsSeen(S, v, x, v[CHOOSE i \in S : \A j \in S : j <= i])
<1>1. \E i \in S : \A j \in S : j <= i
  BY LastPlace
<1>2. PICK i : i = CHOOSE a \in S : \A j \in S : j <= a
  OBVIOUS
<1>3. i \in S /\ \A j \in S : j <= i
  BY <1>1, <1>2
<1> QED
  BY <1>2, <1>3 DEF IsSeen

(* The writes of p's queue that set q's team, and whether t lists q. *)
Puts(p, q)     == Pending(p, {"signup", "put"}, q, TeamIDs)
Lists(p, t, q) == Pending(p, {"create", "list", "unlist"}, q, {t})

TeamsIn(p) == [i \in 1 .. Len(queue[p]) |-> queue[p][i].team]
Stays(p)   == [i \in 1 .. Len(queue[p]) |-> queue[p][i].op # "unlist"]

LEMMA SeenTeamIs ==
  ASSUME TypeOK, NEW p \in Players, NEW q
  PROVE  IsSeen(Puts(p, q), TeamsIn(p), teamOf[q], SeenTeam(p, q))
<1>1. Puts(p, q) \subseteq 1 .. Len(queue[p]) /\ Len(queue[p]) \in Nat
  BY PendingPlaces, QueueTypes DEF Puts
<1>2. CASE Puts(p, q) = {}
  BY <1>2 DEF IsSeen, SeenTeam, Puts
<1>3. CASE Puts(p, q) # {}
  <2>1. PICK i : i = CHOOSE a \in Puts(p, q) : \A j \in Puts(p, q) : j <= a
    OBVIOUS
  <2>2. i \in Puts(p, q)
    BY <1>1, <1>3, <2>1, LastPlace
  <2>3. SeenTeam(p, q) = TeamsIn(p)[i]
    BY <1>1, <1>3, <2>1, <2>2 DEF SeenTeam, Latest, Puts, TeamsIn
  <2> QED
    BY <1>1, <1>3, <2>1, <2>3, LastIsSeen
<1> QED
  BY <1>2, <1>3

LEMMA SeenTeamIsNext ==
  ASSUME TypeOK', NEW p \in Players, NEW q
  PROVE  IsSeen(Puts(p, q)', TeamsIn(p)', teamOf'[q], SeenTeam(p, q)')
<1>1. Puts(p, q)' \subseteq 1 .. Len(queue'[p]) /\ Len(queue'[p]) \in Nat
  BY LenProperties DEF Puts, Pending, TypeOK
<1>2. CASE Puts(p, q)' = {}
  BY <1>2 DEF IsSeen, SeenTeam, Puts
<1>3. CASE Puts(p, q)' # {}
  <2>1. PICK i : i = CHOOSE a \in Puts(p, q)' : \A j \in Puts(p, q)' : j <= a
    OBVIOUS
  <2>2. i \in Puts(p, q)'
    BY <1>1, <1>3, <2>1, LastPlace
  <2>3. SeenTeam(p, q)' = TeamsIn(p)'[i]
    BY <1>1, <1>3, <2>1, <2>2 DEF SeenTeam, Latest, Puts, TeamsIn
  <2> QED
    BY <1>1, <1>3, <2>1, <2>3, LastIsSeen
<1> QED
  BY <1>2, <1>3

LEMMA SeenMemberIs ==
  ASSUME TypeOK, NEW p \in Players, NEW t, NEW q
  PROVE  IsSeen(Lists(p, t, q), Stays(p), q \in team[t].members, SeenMember(p, t, q))
<1>1. Lists(p, t, q) \subseteq 1 .. Len(queue[p]) /\ Len(queue[p]) \in Nat
  BY PendingPlaces, QueueTypes DEF Lists
<1>2. CASE Lists(p, t, q) = {}
  BY <1>2, Zenon DEF IsSeen, SeenMember, Lists
<1>3. CASE Lists(p, t, q) # {}
  <2>1. PICK i : i = CHOOSE a \in Lists(p, t, q) : \A j \in Lists(p, t, q) : j <= a
    OBVIOUS
  <2>2. i \in Lists(p, t, q)
    BY <1>1, <1>3, <2>1, LastPlace
  <2>3. Stays(p)[i] = (queue[p][i].op # "unlist")
    BY <1>1, <2>2 DEF Stays
  <2>4. SeenMember(p, t, q) = (queue[p][i].op # "unlist")
    BY <1>3, <2>1, Zenon DEF SeenMember, Latest, Lists
  <2>5. SeenMember(p, t, q) = Stays(p)[i]
    BY <2>3, <2>4, Zenon
  <2> QED
    BY <1>1, <1>3, <2>1, <2>5, LastIsSeen
<1> QED
  BY <1>2, <1>3

LEMMA SeenMemberIsNext ==
  ASSUME TypeOK', NEW p \in Players, NEW t, NEW q
  PROVE  IsSeen(Lists(p, t, q)', Stays(p)', q \in team'[t].members, SeenMember(p, t, q)')
<1>1. Lists(p, t, q)' \subseteq 1 .. Len(queue'[p]) /\ Len(queue'[p]) \in Nat
  BY LenProperties DEF Lists, Pending, TypeOK
<1>2. CASE Lists(p, t, q)' = {}
  BY <1>2, Zenon DEF IsSeen, SeenMember, Lists
<1>3. CASE Lists(p, t, q)' # {}
  <2>1. PICK i : i = CHOOSE a \in Lists(p, t, q)' : \A j \in Lists(p, t, q)' : j <= a
    OBVIOUS
  <2>2. i \in Lists(p, t, q)'
    BY <1>1, <1>3, <2>1, LastPlace
  <2>3. Stays(p)'[i] = (queue'[p][i].op # "unlist")
    BY <1>1, <2>2 DEF Stays
  <2>4. SeenMember(p, t, q)' = (queue'[p][i].op # "unlist")
    BY <1>3, <2>1, Zenon DEF SeenMember, Latest, Lists
  <2>5. SeenMember(p, t, q)' = Stays(p)'[i]
    BY <2>3, <2>4, Zenon
  <2> QED
    BY <1>1, <1>3, <2>1, <2>5, LastIsSeen
<1> QED
  BY <1>2, <1>3

-----------------------------------------------------------------------------
(* The invariant about managers nobody can add *)

(* t is p's own: it is on the server, or p's queue founds it before place i. *)
Born(p, i, t) ==
  t \in Teams /\ (team[t].manager = p \/ \E j \in 1 .. i - 1 : Creates(p, j, t))

Founds(p, t) == Born(p, Len(queue[p]) + 1, t)

(* No two phones found one team. *)
OneFounder ==
  \A p \in Players : \A i \in 1 .. Len(queue[p]) : \A t \in Teams :
    Creates(p, i, t) =>
      /\ p \in Founders /\ team[t].manager \in {NoPlayer, p}
      /\ \A e \in Players : \A j \in 1 .. Len(queue[e]) : Creates(e, j, t) => e = p

(* A phone signs up its own player, before it does anything else; who was   *)
(* there stays there.                                                       *)
SignUps ==
  /\ \A c \in calls : screen[c.phone] # "new"
  /\ \A p \in Players :
       /\ \A i \in 1 .. Len(queue[p]) :
            queue[p][i].op = "signup" =>
              /\ queue[p][i].player = p /\ queue[p][i].team = NoTeam /\ p \notin Registered
              /\ i <= sent[p] => teamOf[p] # Missing
       /\ screen[p] = "new" => p \notin Registered
       /\ p \in Registered => teamOf[p] # Missing
       /\ screen[p] # "new" =>
            teamOf[p] # Missing \/ \E j \in 1 .. Len(queue[p]) : queue[p][j].op = "signup"

Invited == \A c \in calls : c.kind \in {"add", "query"} => c.player \in Invites[c.phone]

(* Only m's phone writes about q, to put him into teams of m's own, after   *)
(* the writes that found them.                                              *)
MemberOps == {"signup", "put", "list", "unlist"}

GoodMember(m, q, p, i) ==
  LET w == queue[p][i]
  IN  w.player = q /\ w.op \in MemberOps =>
        /\ p = m
        /\ w.op = "put" =>
             /\ w.team = NoTeam \/ Born(m, i, w.team)
             /\ \/ teamOf[q] # Missing
                \/ q = m /\ \E j \in 1 .. i - 1 : queue[p][j].op = "signup"
        /\ w.op \in {"list", "unlist"} =>
             /\ Born(m, i, w.team)
             /\ \A j \in 1 .. Len(queue[m]) : Creates(m, j, w.team) => j < i

OnlyBy(m, q) == \A p \in Players : \A i \in 1 .. Len(queue[p]) : GoodMember(m, q, p, i)

(* What the server has of q: teams of m's only, and if a team that lists q  *)
(* may be founded once more, the list is written after that.                *)
Placed(m, q) ==
  /\ teamOf[q] \in Teams => team[teamOf[q]].manager = m
  /\ \A t \in Teams :
       q \in team[t].members =>
         /\ team[t].manager = m
         /\ (\E i \in 1 .. Len(queue[m]) : Creates(m, i, t)) => Lists(m, t, q) # {}

(* Nobody else is about to remove q from a team but m's. *)
Removals(m, q) ==
  \A c \in calls :
    c.kind = "remove" /\ c.player = q /\ c.phone # m =>
      c.team \in Teams /\ team[c.team].manager = m

ServerTold(m, q) ==
  /\ Told(Puts(m, q), TeamsIn(m), sent[m], teamOf[q])
  /\ \A t \in Teams : Told(Lists(m, t, q), Stays(m), sent[m], q \in team[t].members)

Agree(m, q) == \A t \in Teams : SeenTeam(m, q) = t <=> SeenMember(m, t, q)

Roster(m, q) ==
  OnlyBy(m, q) /\ Placed(m, q) /\ Removals(m, q) /\ ServerTold(m, q) /\ Agree(m, q)

(* m's team has its name, or will have it after it has been founded. *)
Named(m, t) ==
  \/ /\ team[t].named
     /\ \A i \in 1 .. Len(queue[m]) : ~Creates(m, i, t)
  \/ \E j \in 1 .. Len(queue[m]) :
       /\ queue[m][j].op = "name" /\ queue[m][j].player = m /\ queue[m][j].team = t
       /\ \A i \in 1 .. Len(queue[m]) : Creates(m, i, t) => i < j
       /\ j <= sent[m] => team[t].named

Keeps(m) ==
  /\ \A t \in Teams :
       Founds(m, t) => /\ ud[m] = t /\ screen[m] \in {"home", "team"}
                       /\ SeenTeam(m, m) = t /\ Named(m, t)
  /\ ud[m] \in Teams => Founds(m, ud[m])
  /\ \A c \in calls :
       c.phone = m /\ c.kind \in {"add", "query", "remove"} => Founds(m, c.team)

RosterInv ==
  /\ OneFounder /\ SignUps /\ Invited
  /\ \A m \in Uninvited : Keeps(m) /\ \A q \in Sole[m] : Roster(m, q)

-----------------------------------------------------------------------------
(* The wire: d writes of p's are acknowledged, the first k are known to the *)
(* server, the k-th may only arrive now.                                    *)
WireStep(p, d, k) ==
  /\ k = sent'[p] + d
  /\ Len(queue'[p]) = Len(queue[p]) - d
  /\ \A i \in 1 .. Len(queue[p]) - d : queue'[p][i] = queue[p][i + d]
  /\ \A e \in Players : e # p => queue'[e] = queue[e] /\ sent'[e] = sent[e]
  /\ \/ k \in {0, sent[p]} /\ UNCHANGED <<teamOf, team>>
     \/ k = sent[p] + 1 /\ k \in 1 .. Len(queue[p]) /\ Arrive(queue[p][k])
  /\ UNCHANGED <<calls, ud, screen>>

LEMMA WireShape ==
  ASSUME Inv, NEW p \in Players, Deliver(p) \/ Reach(p) \/ Acknowledge(p) \/ Reconnect(p)
  PROVE  \E d \in {0, 1}, k \in Nat : WireStep(p, d, k)
<1>1. TypeOK
  BY DEF Inv
<1>2. /\ queue[p] \in Seq(Write) /\ Len(queue[p]) \in Nat
      /\ sent[p] \in Nat /\ sent[p] <= Len(queue[p])
      /\ queue \in [Players -> Seq(Write)] /\ sent \in [Players -> Nat]
  BY <1>1, QueueTypes DEF TypeOK
<1>3. ASSUME queue[p] # <<>>, queue' = [queue EXCEPT ![p] = Tail(@)]
      PROVE  /\ Len(queue'[p]) = Len(queue[p]) - 1 /\ Len(queue[p]) >= 1
             /\ \A i \in 1 .. Len(queue[p]) - 1 : queue'[p][i] = queue[p][i + 1]
             /\ \A e \in Players : e # p => queue'[e] = queue[e]
  BY <1>2, <1>3, HeadTailProperties, EmptySeq
<1>4. CASE Deliver(p)
  <2>1. /\ sent[p] = 0 /\ queue[p] # <<>> /\ Arrive(queue[p][1])
        /\ queue' = [queue EXCEPT ![p] = Tail(@)] /\ UNCHANGED <<sent, calls, ud, screen>>
    BY <1>2, <1>4, HeadTailProperties, EmptySeq DEF Deliver
  <2> QED
    BY <1>2, <1>3, <2>1 DEF WireStep
<1>5. CASE Reach(p)
  <2>1. PICK k \in 1 .. Len(queue[p]) : k = sent[p] + 1
    BY <1>2, <1>5 DEF Reach
  <2>2. /\ Arrive(queue[p][k]) /\ queue' = queue /\ sent'[p] = k
        /\ \A e \in Players : e # p => sent'[e] = sent[e]
        /\ UNCHANGED <<calls, ud, screen>>
    BY <1>2, <1>5, <2>1 DEF Reach
  <2>3. WireStep(p, 0, k)
    BY <1>2, <2>1, <2>2 DEF WireStep
  <2> QED
    BY <2>3
<1>6. CASE Acknowledge(p)
  <2>1. /\ sent[p] > 0 /\ queue' = [queue EXCEPT ![p] = Tail(@)]
        /\ sent'[p] = sent[p] - 1 /\ \A e \in Players : e # p => sent'[e] = sent[e]
        /\ UNCHANGED <<teamOf, team, calls, ud, screen>>
    BY <1>2, <1>6 DEF Acknowledge
  <2>2. queue[p] # <<>>
    BY <1>2, <2>1, EmptySeq
  <2>3. PICK k \in Nat : k = sent[p]
    BY <1>2
  <2>4. WireStep(p, 1, k)
    BY <1>2, <1>3, <2>1, <2>2, <2>3 DEF WireStep
  <2> QED
    BY <2>4
<1>7. CASE Reconnect(p)
  <2>1. /\ queue' = queue /\ sent'[p] = 0 /\ \A e \in Players : e # p => sent'[e] = sent[e]
        /\ UNCHANGED <<teamOf, team, calls, ud, screen>>
    BY <1>2, <1>7 DEF Reconnect
  <2>2. WireStep(p, 0, 0)
    BY <1>2, <2>1 DEF WireStep
  <2> QED
    BY <2>2
<1> QED
  BY <1>4, <1>5, <1>6, <1>7

LEMMA WireTypes ==
  ASSUME Inv, Inv', NEW p \in Players, NEW d \in {0, 1}, NEW k \in Nat, WireStep(p, d, k)
  PROVE  /\ Len(queue[p]) \in Nat /\ Len(queue'[p]) \in Nat
         /\ sent[p] \in Nat /\ sent'[p] \in Nat /\ sent[p] <= Len(queue[p])
         /\ d <= Len(queue[p]) /\ d <= k /\ k <= Len(queue[p])
         /\ \A i \in 1 .. Len(queue'[p]) : i + d \in 1 .. Len(queue[p]) /\ queue'[p][i] = queue[p][i + d]
         /\ \A i \in 1 .. Len(queue[p]) : i > d =>
              /\ i - d \in 1 .. Len(queue'[p]) /\ (i - d) + d = i
              /\ queue'[p][i - d] = queue[p][i]
<1>1. TypeOK /\ TypeOK'
  BY DEF Inv
<1>2. /\ Len(queue[p]) \in Nat /\ sent[p] \in Nat /\ sent[p] <= Len(queue[p])
  BY <1>1, QueueTypes
<1>3. Len(queue'[p]) \in Nat /\ sent'[p] \in Nat
  BY <1>1, LenProperties DEF TypeOK
<1>4. /\ k = sent'[p] + d /\ Len(queue'[p]) = Len(queue[p]) - d
      /\ \A i \in 1 .. Len(queue[p]) - d : queue'[p][i] = queue[p][i + d]
      /\ k \in {0, sent[p]} \/ k \in 1 .. Len(queue[p])
  BY DEF WireStep
<1>5. d <= Len(queue[p]) /\ d <= k /\ k <= Len(queue[p])
  BY <1>2, <1>3, <1>4
<1>6. \A i \in 1 .. Len(queue'[p]) : i + d \in 1 .. Len(queue[p]) /\ queue'[p][i] = queue[p][i + d]
  BY <1>2, <1>3, <1>4
<1>7. ASSUME NEW i \in 1 .. Len(queue[p]), i > d
      PROVE  i - d \in 1 .. Len(queue'[p]) /\ (i - d) + d = i /\ queue'[p][i - d] = queue[p][i]
  <2>1. i - d \in 1 .. Len(queue'[p]) /\ (i - d) + d = i
    BY <1>2, <1>4, <1>7
  <2>2. PICK j \in 1 .. Len(queue'[p]) : j = i - d
    BY <2>1
  <2> QED
    BY <1>6, <2>1, <2>2
<1> QED
  BY <1>2, <1>3, <1>5, <1>6, <1>7

(* What the write that arrives does. *)
LEMMA WireArrives ==
  ASSUME Inv, NEW p \in Players, NEW k \in 1 .. Len(queue[p]), k = sent[p] + 1, Arrive(queue[p][k])
  PROVE  /\ queue[p][k] \in Write /\ GoodWrite(p, k)
         /\ \A q \in Players :
              teamOf'[q] = IF q = queue[p][k].player THEN TeamAfter(teamOf[q], queue[p][k]) ELSE teamOf[q]
         /\ \A t \in Teams :
              team'[t] = IF t = queue[p][k].team THEN Applied(team[t], queue[p][k]) ELSE team[t]
<1>1. TypeOK /\ Writes
  BY DEF Inv
<1>2. queue[p][k] \in Write /\ GoodWrite(p, k)
  BY <1>1, QueueTypes DEF Writes
<1>3. teamOf \in [Players -> TeamIDs \cup {Missing}]
  BY <1>1 DEF TypeOK
<1> QED
  BY <1>2, <1>3 DEF Arrive

LEMMA WireFounding ==
  ASSUME Inv, Inv', OneFounder, NEW p \in Players, NEW d \in {0, 1}, NEW k \in Nat, WireStep(p, d, k),
         NEW t \in Teams
  PROVE  /\ \A f \in Players : team[t].manager = f => team'[t].manager = f
         /\ \A j \in 1 .. Len(queue[p]) : j <= k /\ Creates(p, j, t) => team'[t].manager = p
         /\ \A f \in Players :
              team'[t].manager = f =>
                \/ team[t].manager = f
                \/ f = p /\ k \in 1 .. Len(queue[p]) /\ Creates(p, k, t)
<1>1. TypeOK /\ Writes /\ NoPlayer \notin Players /\ NoTeam \notin Teams
  BY TeamsAssumption DEF Inv
<1>2. /\ Len(queue[p]) \in Nat /\ sent[p] \in Nat /\ sent[p] <= Len(queue[p])
      /\ team[t] \in TeamDoc
  BY <1>1, QueueTypes DEF TypeOK
<1>3. ASSUME NEW j \in 1 .. Len(queue[p]), j <= sent[p], Creates(p, j, t)
      PROVE  team[t].manager = p
  BY <1>1, <1>3 DEF Writes, GoodWrite, Creates, Exists, OneFounder
<1>4. CASE k \in {0, sent[p]} /\ UNCHANGED <<teamOf, team>>
  BY <1>2, <1>3, <1>4
<1>5. CASE k = sent[p] + 1 /\ k \in 1 .. Len(queue[p]) /\ Arrive(queue[p][k])
  <2>0. PICK w : w = queue[p][k]
    OBVIOUS
  <2>1. /\ w \in Write /\ GoodWrite(p, k)
        /\ team'[t] = IF t = w.team THEN Applied(team[t], w) ELSE team[t]
    BY <1>5, <2>0, WireArrives
  <2>2. w.op \in {"signup", "create", "name", "put", "list", "unlist"} /\ w.player \in Players
    BY <2>1, WriteTypes
  <2>3. CASE w.op = "create" /\ w.team = t
    <3>1. team'[t].manager = p
      BY <2>0, <2>1, <2>3 DEF Applied, GoodWrite
    <3>2. team[t].manager \in {NoPlayer, p} /\ Creates(p, k, t)
      BY <1>5, <2>0, <2>3 DEF OneFounder, Creates
    <3> QED
      BY <1>1, <1>2, <1>5, <3>1, <3>2
  <2>4. CASE ~(w.op = "create" /\ w.team = t)
    <3>1. team'[t].manager = team[t].manager
      BY <1>2, <2>1, <2>2, <2>4 DEF Applied, TeamDoc
    <3>2. ~Creates(p, k, t)
      BY <2>0, <2>4 DEF Creates
    <3>3. \A j \in 1 .. Len(queue[p]) : j <= k /\ Creates(p, j, t) => j <= sent[p]
      BY <1>2, <1>5, <3>2
    <3> QED
      BY <1>3, <3>1, <3>3
  <2> QED
    BY <2>3, <2>4
<1> QED
  BY <1>4, <1>5 DEF WireStep

LEMMA WireBorn ==
  ASSUME Inv, Inv', OneFounder, NEW p \in Players, NEW d \in {0, 1}, NEW k \in Nat, WireStep(p, d, k),
         NEW t
  PROVE  /\ \A i \in 1 .. Len(queue'[p]) + 1 : Born(p, i + d, t) => Born(p, i, t)'
         /\ \A f \in Players : f # p => \A i \in Nat : Born(f, i, t) => Born(f, i, t)'
         /\ \A f \in Players : Founds(f, t) <=> Founds(f, t)'
<1>1. SUFFICES ASSUME t \in Teams
               PROVE  /\ \A i \in 1 .. Len(queue'[p]) + 1 : Born(p, i + d, t) => Born(p, i, t)'
                      /\ \A f \in Players : f # p => \A i \in Nat : Born(f, i, t) => Born(f, i, t)'
                      /\ \A f \in Players : Founds(f, t) <=> Founds(f, t)'
  BY DEF Founds, Born
<1>2. /\ Len(queue[p]) \in Nat /\ Len(queue'[p]) \in Nat /\ d <= k /\ d <= Len(queue[p])
      /\ Len(queue'[p]) = Len(queue[p]) - d
      /\ \A i \in 1 .. Len(queue'[p]) : i + d \in 1 .. Len(queue[p]) /\ queue'[p][i] = queue[p][i + d]
      /\ \A i \in 1 .. Len(queue[p]) : i > d =>
           /\ i - d \in 1 .. Len(queue'[p]) /\ (i - d) + d = i
           /\ queue'[p][i - d] = queue[p][i]
      /\ \A e \in Players : e # p => queue'[e] = queue[e]
  BY WireTypes DEF WireStep
<1>3. /\ \A f \in Players : team[t].manager = f => team'[t].manager = f
      /\ \A j \in 1 .. Len(queue[p]) : j <= k /\ Creates(p, j, t) => team'[t].manager = p
      /\ \A f \in Players :
           team'[t].manager = f =>
             \/ team[t].manager = f
             \/ f = p /\ k \in 1 .. Len(queue[p]) /\ Creates(p, k, t)
  BY <1>1, WireFounding
<1>4. ASSUME NEW i \in 1 .. Len(queue'[p]) + 1, Born(p, i + d, t)
      PROVE  Born(p, i, t)'
  <2>1. CASE team[t].manager = p
    BY <1>1, <1>3, <2>1 DEF Born
  <2>2. CASE \E j \in 1 .. (i + d) - 1 : Creates(p, j, t)
    <3>1. PICK j \in 1 .. (i + d) - 1 : Creates(p, j, t)
      BY <2>2
    <3>2. j \in 1 .. Len(queue[p])
      BY <1>2, <3>1
    <3>3. CASE j <= d
      <4>1. j <= k
        BY <1>2, <3>1, <3>3
      <4> QED
        BY <1>1, <1>3, <3>1, <3>2, <4>1 DEF Born
    <3>4. CASE j > d
      <4>1. j - d \in 1 .. i - 1 /\ queue'[p][j - d] = queue[p][j]
        BY <1>2, <3>1, <3>2, <3>4
      <4> QED
        BY <1>1, <3>1, <4>1 DEF Born, Creates
    <3> QED
      BY <3>1, <3>3, <3>4
  <2> QED
    BY <1>4, <2>1, <2>2 DEF Born
<1>5. ASSUME NEW f \in Players, f # p, NEW i \in Nat, Born(f, i, t)
      PROVE  Born(f, i, t)'
  BY <1>2, <1>3, <1>5 DEF Born, Creates
<1>6. ASSUME NEW f \in Players, Founds(f, t) PROVE Founds(f, t)'
  <2>1. CASE f = p
    <3>1. PICK i \in 1 .. Len(queue'[p]) + 1 : i = Len(queue'[p]) + 1 /\ i + d = Len(queue[p]) + 1
      BY <1>2
    <3> QED
      BY <1>4, <1>6, <2>1, <3>1 DEF Founds, Born, Creates
  <2>2. CASE f # p
    BY <1>2, <1>3, <1>6, <2>2 DEF Founds, Born, Creates
  <2> QED
    BY <2>1, <2>2
<1>7. ASSUME NEW f \in Players, Founds(f, t)' PROVE Founds(f, t)
  <2>1. CASE team'[t].manager = f
    <3>1. CASE team[t].manager = f
      BY <1>1, <3>1 DEF Founds, Born
    <3>2. CASE f = p /\ k \in 1 .. Len(queue[p]) /\ Creates(p, k, t)
      <4>1. k \in 1 .. (Len(queue[p]) + 1) - 1
        BY <1>2, <3>2
      <4> QED
        BY <1>1, <3>2, <4>1 DEF Founds, Born
    <3> QED
      BY <1>3, <2>1, <3>1, <3>2
  <2>2. CASE team'[t].manager # f /\ f # p
    BY <1>1, <1>2, <1>7, <2>2 DEF Founds, Born, Creates
  <2>3. CASE team'[t].manager # f /\ f = p
    <3>1. PICK j \in 1 .. (Len(queue'[p]) + 1) - 1 : Creates(p, j, t)'
      BY <1>7, <2>3 DEF Founds, Born
    <3>2. j + d \in 1 .. (Len(queue[p]) + 1) - 1 /\ queue'[p][j] = queue[p][j + d]
      BY <1>2, <3>1
    <3>3. PICK i \in 1 .. (Len(queue[p]) + 1) - 1 : i = j + d
      BY <3>2
    <3>4. Creates(p, i, t)
      BY <3>1, <3>2, <3>3 DEF Creates
    <3> QED
      BY <1>1, <2>3, <3>4 DEF Founds, Born
  <2> QED
    BY <2>1, <2>2, <2>3
<1> QED
  BY <1>4, <1>5, <1>6, <1>7

LEMMA WireOld ==
  ASSUME Inv, Inv', NEW p \in Players, NEW d \in {0, 1}, NEW k \in Nat, WireStep(p, d, k)
  PROVE  \A e \in Players : \A i \in 1 .. Len(queue'[e]) :
           \E j \in 1 .. Len(queue[e]) :
             queue'[e][i] = queue[e][j] /\ (e = p => j = i + d) /\ (e # p => j = i)
<1>1. SUFFICES ASSUME NEW e \in Players, NEW i \in 1 .. Len(queue'[e])
               PROVE  \E j \in 1 .. Len(queue[e]) :
                        queue'[e][i] = queue[e][j] /\ (e = p => j = i + d) /\ (e # p => j = i)
  OBVIOUS
<1>2. CASE e = p
  <2>1. i + d \in 1 .. Len(queue[p]) /\ queue'[p][i] = queue[p][i + d]
    BY <1>2, WireTypes
  <2> QED
    BY <1>2, <2>1
<1>3. CASE e # p
  BY <1>3 DEF WireStep
<1> QED
  BY <1>2, <1>3

LEMMA WireOneFounder ==
  ASSUME Inv, Inv', OneFounder, NEW p \in Players, NEW d \in {0, 1}, NEW k \in Nat, WireStep(p, d, k)
  PROVE  OneFounder'
<1>0. \A e \in Players : \A i \in 1 .. Len(queue'[e]) :
        \E j \in 1 .. Len(queue[e]) :
          queue'[e][i] = queue[e][j] /\ (e = p => j = i + d) /\ (e # p => j = i)
  BY WireOld
<1>1. ASSUME NEW e \in Players, NEW i \in 1 .. Len(queue'[e]), NEW t, Creates(e, i, t)'
      PROVE  \E j \in 1 .. Len(queue[e]) : Creates(e, j, t)
  BY <1>0, <1>1 DEF Creates
<1>2. ASSUME NEW e \in Players, NEW i \in 1 .. Len(queue'[e]), NEW t \in Teams, Creates(e, i, t)'
      PROVE  e \in Founders /\ team'[t].manager \in {NoPlayer, e}
  <2>1. PICK j \in 1 .. Len(queue[e]) : Creates(e, j, t)
    BY <1>1, <1>2
  <2>2. e \in Founders /\ team[t].manager \in {NoPlayer, e}
    BY <2>1 DEF OneFounder
  <2>3. \A f \in Players :
          team'[t].manager = f =>
            team[t].manager = f \/ (f = p /\ k \in 1 .. Len(queue[p]) /\ Creates(p, k, t))
    BY WireFounding
  <2>4. team'[t].manager \in Players \cup {NoPlayer} /\ NoPlayer \notin Players
    BY TeamsAssumption DEF Inv, TypeOK, TeamDoc
  <2>5. k \in 1 .. Len(queue[p]) /\ Creates(p, k, t) => p = e
    BY <2>1 DEF OneFounder
  <2> QED
    BY <2>2, <2>3, <2>4, <2>5
<1>3. ASSUME NEW e \in Players, NEW i \in 1 .. Len(queue'[e]), NEW t \in Teams, Creates(e, i, t)',
             NEW f \in Players, NEW j \in 1 .. Len(queue'[f]), Creates(f, j, t)'
      PROVE  f = e
  <2>1. PICK i2 \in 1 .. Len(queue[e]) : Creates(e, i2, t)
    BY <1>1, <1>3
  <2>2. PICK j2 \in 1 .. Len(queue[f]) : Creates(f, j2, t)
    BY <1>1, <1>3
  <2> QED
    BY <2>1, <2>2 DEF OneFounder
<1> QED
  <2>1. SUFFICES ASSUME NEW e \in Players, NEW i \in 1 .. Len(queue'[e]), NEW t \in Teams,
                        Creates(e, i, t)'
                 PROVE  /\ e \in Founders /\ team'[t].manager \in {NoPlayer, e}
                        /\ \A f \in Players : \A j \in 1 .. Len(queue'[f]) :
                             Creates(f, j, t)' => f = e
    BY DEF OneFounder, Creates
  <2> QED
    BY <1>2, <1>3, <2>1

(* A player who has a document keeps one. *)
LEMMA WireThere ==
  ASSUME Inv, NEW p \in Players, NEW d \in {0, 1}, NEW k \in Nat, WireStep(p, d, k),
         NEW q \in Players, teamOf[q] # Missing
  PROVE  teamOf'[q] # Missing
<1>1. CASE UNCHANGED <<teamOf, team>>
  BY <1>1
<1>2. CASE k = sent[p] + 1 /\ k \in 1 .. Len(queue[p]) /\ Arrive(queue[p][k])
  <2>1. /\ queue[p][k] \in Write
        /\ teamOf'[q] = IF q = queue[p][k].player THEN TeamAfter(teamOf[q], queue[p][k]) ELSE teamOf[q]
    BY <1>2, WireArrives
  <2>2. queue[p][k].team # Missing
    BY <2>1, WriteTypes, TeamsAssumption DEF TeamIDs
  <2> QED
    BY <2>1, <2>2 DEF TeamAfter
<1> QED
  BY <1>1, <1>2 DEF WireStep

(* A sign-up the server knows has left a document. *)
LEMMA WireSignedUp ==
  ASSUME Inv, Inv', SignUps, NEW p \in Players, NEW d \in {0, 1}, NEW k \in Nat, WireStep(p, d, k)
  PROVE  \A j \in 1 .. Len(queue[p]) : queue[p][j].op = "signup" /\ j <= k => teamOf'[p] # Missing
<1>1. SUFFICES ASSUME NEW j \in 1 .. Len(queue[p]), queue[p][j].op = "signup", j <= k
               PROVE  teamOf'[p] # Missing
  OBVIOUS
<1>2. Len(queue[p]) \in Nat /\ sent[p] \in Nat
  BY WireTypes
<1>3. CASE j <= sent[p]
  BY <1>1, <1>3, WireThere DEF SignUps
<1>4. CASE ~(j <= sent[p])
  <2>1. j = k /\ k = sent[p] + 1 /\ k \in 1 .. Len(queue[p]) /\ Arrive(queue[p][k])
    BY <1>1, <1>2, <1>4 DEF WireStep
  <2>2. /\ queue[p][k].player = p /\ queue[p][k].team = NoTeam
    BY <1>1, <2>1 DEF SignUps
  <2>3. teamOf'[p] = IF p = queue[p][k].player THEN TeamAfter(teamOf[p], queue[p][k]) ELSE teamOf[p]
    BY <2>1, WireArrives
  <2> QED
    BY <1>1, <2>1, <2>2, <2>3, TeamsAssumption DEF TeamAfter
<1> QED
  BY <1>3, <1>4

LEMMA WireSignUps ==
  ASSUME Inv, Inv', SignUps, NEW p \in Players, NEW d \in {0, 1}, NEW k \in Nat, WireStep(p, d, k)
  PROVE  SignUps'
<1>1. /\ Len(queue[p]) \in Nat /\ sent[p] \in Nat /\ d <= k
      /\ \A i \in 1 .. Len(queue[p]) : i > d =>
           /\ i - d \in 1 .. Len(queue'[p]) /\ (i - d) + d = i
           /\ queue'[p][i - d] = queue[p][i]
      /\ sent'[p] \in Nat
  BY WireTypes
<1>0. k = sent'[p] + d /\ UNCHANGED <<calls, screen>>
  BY DEF WireStep
<1>7. \A e \in Players : \A i \in 1 .. Len(queue'[e]) :
        \E j \in 1 .. Len(queue[e]) :
          queue'[e][i] = queue[e][j] /\ (e = p => j = i + d) /\ (e # p => j = i)
  BY WireOld
<1>2. \A j \in 1 .. Len(queue[p]) : queue[p][j].op = "signup" /\ j <= k => teamOf'[p] # Missing
  BY WireSignedUp
<1>3. ASSUME NEW e \in Players, NEW i \in 1 .. Len(queue'[e]), queue'[e][i].op = "signup"
      PROVE  /\ queue'[e][i].player = e /\ queue'[e][i].team = NoTeam /\ e \notin Registered
             /\ i <= sent'[e] => teamOf'[e] # Missing
  <2>1. PICK j \in 1 .. Len(queue[e]) :
          queue'[e][i] = queue[e][j] /\ (e = p => j = i + d) /\ (e # p => j = i)
    BY <1>7
  <2>2. /\ queue[e][j].player = e /\ queue[e][j].team = NoTeam /\ e \notin Registered
        /\ j <= sent[e] => teamOf[e] # Missing
    BY <1>3, <2>1 DEF SignUps
  <2>3. ASSUME i <= sent'[e] PROVE teamOf'[e] # Missing
    <3>1. CASE e = p
      <4>1. j <= k
        BY <1>0, <1>1, <2>1, <2>3, <3>1
      <4> QED
        BY <1>2, <1>3, <2>1, <3>1, <4>1
    <3>2. CASE e # p
      <4>1. sent'[e] = sent[e]
        BY <3>2 DEF WireStep
      <4> QED
        BY <2>1, <2>2, <2>3, <3>2, <4>1, WireThere
    <3> QED
      BY <3>1, <3>2
  <2> QED
    BY <2>1, <2>2, <2>3
<1>4. ASSUME NEW e \in Players
      PROVE  /\ screen'[e] = "new" => e \notin Registered
             /\ e \in Registered => teamOf'[e] # Missing
  <2>1. teamOf[e] # Missing => teamOf'[e] # Missing
    BY WireThere
  <2> QED
    BY <1>0, <2>1 DEF SignUps
<1>5. ASSUME NEW e \in Players, screen'[e] # "new", teamOf'[e] = Missing
      PROVE  \E i \in 1 .. Len(queue'[e]) : queue'[e][i].op = "signup"
  <2>1. teamOf[e] = Missing /\ screen[e] # "new"
    BY <1>0, <1>5, WireThere
  <2>2. PICK j \in 1 .. Len(queue[e]) : queue[e][j].op = "signup"
    BY <2>1 DEF SignUps
  <2>3. CASE e = p
    <3>1. ~(j <= k)
      BY <1>2, <1>5, <2>2, <2>3
    <3>2. j - d \in 1 .. Len(queue'[p]) /\ queue'[p][j - d] = queue[p][j]
      BY <1>1, <2>2, <2>3, <3>1
    <3> QED
      BY <2>2, <2>3, <3>2
  <2>4. CASE e # p
    BY <2>2, <2>4 DEF WireStep
  <2> QED
    BY <2>3, <2>4
<1>6. \A c \in calls' : screen'[c.phone] # "new"
  BY DEF SignUps, WireStep
<1> QED
  BY <1>3, <1>4, <1>5, <1>6 DEF SignUps

-----------------------------------------------------------------------------
(* The players of a manager nobody can add *)

LEMMA SoleFacts ==
  ASSUME NEW m \in Uninvited, NEW q \in Sole[m]
  PROVE  /\ m \in Players /\ q \in Players
         /\ q # m => q \in Registered /\ q \notin Founders
         /\ \A p \in Players : q \in LedTo[p] => p = m /\ q # m
  BY TeamsAssumption DEF Uninvited, Sole

LEMMA WireOnlyBy ==
  ASSUME Inv, Inv', OneFounder, SignUps,
         NEW p \in Players, NEW d \in {0, 1}, NEW k \in Nat, WireStep(p, d, k),
         NEW m \in Players, NEW q \in Players, OnlyBy(m, q)
  PROVE  OnlyBy(m, q)'
<1>1. /\ Len(queue[p]) \in Nat /\ Len(queue'[p]) \in Nat /\ d <= k
      /\ \A i \in 1 .. Len(queue[p]) : i > d =>
           /\ i - d \in 1 .. Len(queue'[p]) /\ (i - d) + d = i
           /\ queue'[p][i - d] = queue[p][i]
  BY WireTypes
<1>0. \A e \in Players : e # p => queue'[e] = queue[e]
  BY DEF WireStep
<1>9. \A e \in Players : \A i \in 1 .. Len(queue'[e]) :
        \E j \in 1 .. Len(queue[e]) :
          queue'[e][i] = queue[e][j] /\ (e = p => j = i + d) /\ (e # p => j = i)
  BY WireOld
<1>2. SUFFICES ASSUME NEW i \in 1 .. Len(queue'[m]), NEW w, w = queue'[m][i],
                      w.player = q, w.op \in MemberOps
               PROVE  /\ w.op = "put" =>
                           /\ w.team = NoTeam \/ Born(m, i, w.team)'
                           /\ \/ teamOf'[q] # Missing
                              \/ q = m /\ \E j \in 1 .. i - 1 : queue'[m][j].op = "signup"
                      /\ w.op \in {"list", "unlist"} =>
                           /\ Born(m, i, w.team)'
                           /\ \A j \in 1 .. Len(queue'[m]) : Creates(m, j, w.team)' => j < i
  <2>1. ASSUME NEW e \in Players, NEW i \in 1 .. Len(queue'[e]),
               queue'[e][i].player = q, queue'[e][i].op \in MemberOps
        PROVE  e = m
    <3>1. PICK j \in 1 .. Len(queue[e]) : queue'[e][i] = queue[e][j]
      BY <1>9
    <3>2. GoodMember(m, q, e, j)
      BY DEF OnlyBy
    <3> QED
      BY <2>1, <3>1, <3>2 DEF GoodMember
  <2>2. SUFFICES ASSUME NEW e \in Players, NEW i \in 1 .. Len(queue'[e])
                 PROVE  GoodMember(m, q, e, i)'
    BY DEF OnlyBy
  <2>3. CASE queue'[e][i].player = q /\ queue'[e][i].op \in MemberOps
    <3>1. e = m
      BY <2>1, <2>3
    <3>2. PICK w : w = queue'[m][i]
      OBVIOUS
    <3> QED
      BY <1>2, <2>3, <3>1, <3>2 DEF GoodMember, Born, Creates
  <2>4. CASE ~(queue'[e][i].player = q /\ queue'[e][i].op \in MemberOps)
    BY <2>4 DEF GoodMember
  <2> QED
    BY <2>3, <2>4
<1>3. PICK j \in 1 .. Len(queue[m]) :
        queue'[m][i] = queue[m][j] /\ (m = p => j = i + d) /\ (m # p => j = i)
  BY <1>9
<1>4. GoodMember(m, q, m, j) /\ w = queue[m][j]
  BY <1>2, <1>3 DEF OnlyBy
<1>5. \A t : Born(m, j, t) => Born(m, i, t)'
  <2>1. CASE m = p
    <3>1. i \in 1 .. Len(queue'[p]) + 1
      BY <1>1, <2>1
    <3> QED
      BY <1>3, <2>1, <3>1, WireBorn
  <2>2. CASE m # p
    <3>1. i \in Nat
      OBVIOUS
    <3> QED
      BY <1>3, <2>2, <3>1, WireBorn
  <2> QED
    BY <2>1, <2>2
<1>6. ASSUME w.op = "put", teamOf'[q] = Missing
      PROVE  q = m /\ \E x \in 1 .. i - 1 : queue'[m][x].op = "signup"
  <2>1. teamOf[q] = Missing
    BY <1>6, WireThere
  <2>2. q = m /\ \E x \in 1 .. j - 1 : queue[m][x].op = "signup"
    BY <1>2, <1>4, <1>6, <2>1 DEF GoodMember
  <2>3. PICK x \in 1 .. j - 1 : queue[m][x].op = "signup"
    BY <2>2
  <2>4. CASE m = p
    <3>1. x \in 1 .. Len(queue[p])
      BY <1>1, <2>4
    <3>2. ~(x <= k)
      BY <1>6, <2>2, <2>3, <2>4, <3>1, WireSignedUp
    <3>3. x - d \in 1 .. i - 1 /\ queue'[m][x - d] = queue[m][x]
      BY <1>1, <1>3, <2>4, <3>1, <3>2
    <3> QED
      BY <2>2, <2>3, <3>3
  <2>5. CASE m # p
    BY <1>0, <1>1, <1>3, <2>2, <2>5
  <2> QED
    BY <2>4, <2>5
<1>7. ASSUME w.op \in {"list", "unlist"}, NEW x \in 1 .. Len(queue'[m]), Creates(m, x, w.team)'
      PROVE  x < i
  <2>1. PICK y \in 1 .. Len(queue[m]) :
          queue'[m][x] = queue[m][y] /\ (m = p => y = x + d) /\ (m # p => y = x)
    BY <1>9
  <2>2. Creates(m, y, w.team)
    BY <1>7, <2>1 DEF Creates
  <2>3. y < j
    BY <1>2, <1>4, <1>7, <2>2 DEF GoodMember
  <2> QED
    BY <1>3, <2>1, <2>3
<1>8. /\ w.op = "put" => w.team = NoTeam \/ Born(m, j, w.team)
      /\ w.op \in {"list", "unlist"} => Born(m, j, w.team)
  BY <1>2, <1>4 DEF GoodMember
<1> QED
  BY <1>5, <1>6, <1>7, <1>8

(* What the server has of q's team changes to what m's queue says at most. *)
LEMMA WireTeam ==
  ASSUME Inv, Inv', OneFounder, SignUps,
         NEW p \in Players, NEW d \in {0, 1}, NEW k \in Nat, WireStep(p, d, k),
         NEW m \in Players, NEW q \in Players, OnlyBy(m, q)
  PROVE  \/ teamOf'[q] = teamOf[q] /\ (p = m => k = 0 \/ k = sent[m] \/ (k = sent[m] + 1 /\ k \notin Puts(m, q)))
         \/ p = m /\ k \in Puts(m, q) /\ teamOf'[q] = TeamsIn(m)[k]
<1>1. CASE k \in {0, sent[p]} /\ UNCHANGED <<teamOf, team>>
  BY <1>1
<1>2. CASE k = sent[p] + 1 /\ k \in 1 .. Len(queue[p]) /\ Arrive(queue[p][k])
  <2>1. PICK w : w = queue[p][k]
    OBVIOUS
  <2>2. /\ w \in Write
        /\ teamOf'[q] = IF q = w.player THEN TeamAfter(teamOf[q], w) ELSE teamOf[q]
    BY <1>2, <2>1, WireArrives
  <2>3. w.team \in TeamIDs
    BY <2>2, WriteTypes
  <2>4. CASE ~(w.player = q /\ w.op \in {"signup", "put"})
    <3>1. teamOf'[q] = teamOf[q]
      BY <2>2, <2>4 DEF TeamAfter
    <3>2. p = m => k \notin Puts(m, q)
      BY <2>1, <2>4 DEF Puts, Pending
    <3> QED
      BY <1>2, <3>1, <3>2
  <2>5. CASE w.player = q /\ w.op \in {"signup", "put"}
    <3>1. GoodMember(m, q, p, k)
      BY <1>2 DEF OnlyBy
    <3>2. p = m
      BY <2>1, <2>5, <3>1 DEF GoodMember, MemberOps
    <3>3. k \in Puts(m, q) /\ TeamsIn(m)[k] = w.team
      BY <1>2, <2>1, <2>3, <2>5, <3>2, QueueTypes DEF Puts, Pending, TeamsIn, Inv
    <3>4. CASE w.op = "signup" \/ teamOf[q] # Missing
      <4>1. teamOf'[q] = w.team
        BY <2>2, <2>5, <3>4 DEF TeamAfter
      <4> QED
        BY <3>2, <3>3, <4>1
    <3>5. CASE w.op = "put" /\ teamOf[q] = Missing
      <4>1. q = m /\ \E j \in 1 .. k - 1 : queue[p][j].op = "signup"
        BY <2>1, <2>5, <3>1, <3>5 DEF GoodMember, MemberOps
      <4>2. PICK j \in 1 .. k - 1 : queue[p][j].op = "signup"
        BY <4>1
      <4>3. j \in 1 .. Len(queue[p]) /\ j <= sent[p]
        BY <1>2, <4>2, WireTypes
      <4> QED
        BY <3>2, <3>5, <4>1, <4>2, <4>3 DEF SignUps
    <3> QED
      BY <2>5, <3>4, <3>5
  <2> QED
    BY <2>4, <2>5
<1> QED
  BY <1>1, <1>2 DEF WireStep

(* A create is in its own player's list. *)
LEMMA CreatesListed ==
  ASSUME Inv, NEW m \in Players, NEW t \in Teams, NEW i \in 1 .. Len(queue[m]), Creates(m, i, t)
  PROVE  i \in Lists(m, t, m)
<1>1. queue[m][i].player = m
  BY DEF Inv, Writes, GoodWrite, Creates
<1> QED
  BY <1>1, QueueTypes DEF Lists, Pending, Creates, Inv

(* The same of the teams' lists; a team founded once more starts empty, and *)
(* q's place in it is written later.                                        *)
LEMMA WireMember ==
  ASSUME Inv, Inv', OneFounder,
         NEW p \in Players, NEW d \in {0, 1}, NEW k \in Nat, WireStep(p, d, k),
         NEW m \in Players, NEW q \in Players, q # m => q \notin Founders,
         OnlyBy(m, q), Placed(m, q), NEW t \in Teams
  PROVE  \/ /\ (q \in team'[t].members) = (q \in team[t].members)
            /\ p = m => k = 0 \/ k = sent[m] \/ (k = sent[m] + 1 /\ k \notin Lists(m, t, q))
         \/ p = m /\ k \in Lists(m, t, q) /\ (q \in team'[t].members) = Stays(m)[k]
         \/ /\ p = m /\ q \notin team'[t].members
            /\ Lists(m, t, q) # {} /\ \A i \in Lists(m, t, q) : i > k
<1>1. CASE k \in {0, sent[p]} /\ UNCHANGED <<teamOf, team>>
  BY <1>1
<1>2. CASE k = sent[p] + 1 /\ k \in 1 .. Len(queue[p]) /\ Arrive(queue[p][k])
  <2>1. PICK w : w = queue[p][k]
    OBVIOUS
  <2>2. /\ w \in Write /\ GoodWrite(p, k) /\ team[t] \in TeamDoc
        /\ team'[t] = IF t = w.team THEN Applied(team[t], w) ELSE team[t]
    <3>1. team[t] \in TeamDoc
      BY DEF Inv, TypeOK
    <3>2. /\ w \in Write /\ GoodWrite(p, k)
          /\ team'[t] = IF t = w.team THEN Applied(team[t], w) ELSE team[t]
      BY <1>2, <2>1, WireArrives
    <3> QED
      BY <3>1, <3>2
  <2>3. w.op \in {"signup", "create", "name", "put", "list", "unlist"} /\ w.team \in TeamIDs
    BY <2>2, WriteTypes
  <2>4. NoPlayer \notin Players
    BY TeamsAssumption
  <2>5. k \in DOMAIN queue[p] /\ Len(queue[p]) \in Nat /\ sent[p] \in Nat
    BY <1>2, QueueTypes DEF Inv
  <2>6. GoodMember(m, q, p, k)
    BY <1>2 DEF OnlyBy
  <2>7. CASE w.team = t /\ w.player = q /\ w.op \in {"list", "unlist"}
    <3>1. p = m /\ Born(m, k, t)
      BY <2>1, <2>6, <2>7 DEF GoodMember, MemberOps
    <3>2. team[t].manager = m
      <4>1. ASSUME NEW j \in 1 .. k - 1, Creates(m, j, t) PROVE team[t].manager = m
        <5>1. j \in 1 .. Len(queue[m]) /\ j <= sent[m]
          BY <1>2, <2>5, <3>1
        <5>2. GoodWrite(m, j)
          BY <5>1 DEF Inv, Writes
        <5> QED
          BY <4>1, <5>1, <5>2 DEF OneFounder, GoodWrite, Creates, Exists
      <4> QED
        BY <3>1, <4>1 DEF Born
    <3>3. team[t] # NoDoc
      BY <2>4, <3>2 DEF NoDoc
    <3>4. (q \in team'[t].members) <=> w.op # "unlist"
      BY <2>2, <2>7, <3>3 DEF Applied, TeamDoc
    <3>5. k \in Lists(m, t, q) /\ Stays(m)[k] = (w.op # "unlist")
      BY <1>2, <2>1, <2>5, <2>7, <3>1 DEF Lists, Pending, Stays
    <3>6. (q \in team'[t].members) = (w.op # "unlist")
      BY <3>4, SMT
    <3>7. (q \in team'[t].members) = Stays(m)[k]
      BY <3>5, <3>6, Zenon
    <3> QED
      BY <3>1, <3>5, <3>7
  <2>8. CASE w.team = t /\ w.op = "create"
    <3>1. w.player = p /\ Creates(p, k, t) /\ team'[t].members = {p}
      BY <2>1, <2>2, <2>8 DEF GoodWrite, Creates, Applied
    <3>2. p \in Founders /\ team[t].manager \in {NoPlayer, p}
      BY <1>2, <3>1 DEF OneFounder
    <3>3. q \in team[t].members => team[t].manager = m
      BY DEF Placed
    <3>4. CASE p # m
      <4>1. q \notin team[t].members /\ q \notin team'[t].members
        BY <2>4, <3>1, <3>2, <3>3, <3>4
      <4> QED
        BY <3>4, <4>1
    <3>5. CASE p = m /\ q = m
      <4>1. k \in Lists(m, t, q) /\ Stays(m)[k] = TRUE
        BY <1>2, <2>1, <2>5, <2>8, <3>1, <3>5 DEF Lists, Pending, Stays
      <4>2. (q \in team'[t].members) = TRUE
        BY <3>1, <3>5
      <4>3. (q \in team'[t].members) = Stays(m)[k]
        BY <4>1, <4>2, Zenon
      <4> QED
        BY <3>5, <4>1, <4>3
    <3>6. CASE p = m /\ q # m
      <4>1. q \notin team'[t].members /\ k \notin Lists(m, t, q)
        BY <2>1, <3>1, <3>6 DEF Lists, Pending
      <4>2. CASE q \notin team[t].members
        BY <1>2, <3>6, <4>1, <4>2
      <4>3. CASE q \in team[t].members
        <5>1. Lists(m, t, q) # {}
          BY <1>2, <3>1, <3>6, <4>3 DEF Placed
        <5>2. ASSUME NEW i \in Lists(m, t, q) PROVE i > k
          <6>1. /\ i \in 1 .. Len(queue[m]) /\ queue[m][i].player = q /\ queue[m][i].team = t
                /\ queue[m][i].op \in {"create", "list", "unlist"}
            BY <5>2, QueueTypes DEF Lists, Pending, Inv
          <6>2. queue[m][i].op \in {"list", "unlist"}
            BY <3>6, <6>1 DEF Inv, Writes, GoodWrite
          <6>3. GoodMember(m, q, m, i)
            BY <6>1 DEF OnlyBy
          <6>4. k < i
            BY <1>2, <3>1, <3>6, <6>1, <6>2, <6>3 DEF GoodMember, MemberOps
          <6> QED
            BY <6>1, <6>4
        <5> QED
          BY <3>6, <4>1, <5>1, <5>2
      <4> QED
        BY <4>2, <4>3
    <3> QED
      BY <3>4, <3>5, <3>6
  <2>9. CASE ~(w.team = t /\ w.player = q /\ w.op \in {"list", "unlist"})
             /\ ~(w.team = t /\ w.op = "create")
    <3>1. (q \in team'[t].members) <=> (q \in team[t].members)
      BY <2>2, <2>3, <2>9 DEF Applied, TeamDoc
    <3>2. (q \in team'[t].members) = (q \in team[t].members)
      BY <3>1, SMT
    <3>3. p = m => k \notin Lists(m, t, q)
      BY <2>1, <2>9 DEF Lists, Pending
    <3> QED
      BY <1>2, <3>2, <3>3
  <2> QED
    BY <2>7, <2>8, <2>9
<1> QED
  BY <1>1, <1>2 DEF WireStep

LEMMA WirePlaces ==
  ASSUME Inv, Inv', NEW p \in Players, NEW d \in {0, 1}, NEW k \in Nat, WireStep(p, d, k),
         NEW ops, NEW q, NEW ts
  PROVE  /\ Pending(p, ops, q, ts)' = {i \in 1 .. Len(queue[p]) - d : i + d \in Pending(p, ops, q, ts)}
         /\ \A i \in 1 .. Len(queue[p]) - d : TeamsIn(p)'[i] = TeamsIn(p)[i + d]
         /\ \A i \in 1 .. Len(queue[p]) - d : Stays(p)'[i] = Stays(p)[i + d]
<1>1. /\ DOMAIN queue[p] = 1 .. Len(queue[p]) /\ DOMAIN queue'[p] = 1 .. Len(queue'[p])
  BY LenProperties DEF Inv, TypeOK
<1>2. /\ Len(queue'[p]) = Len(queue[p]) - d
      /\ \A i \in 1 .. Len(queue'[p]) : i + d \in 1 .. Len(queue[p]) /\ queue'[p][i] = queue[p][i + d]
  BY WireTypes DEF WireStep
<1>3. ASSUME NEW i \in 1 .. Len(queue'[p])
      PROVE  i \in Pending(p, ops, q, ts)' <=> i + d \in Pending(p, ops, q, ts)
  BY <1>1, <1>2 DEF Pending
<1>4. Pending(p, ops, q, ts)' \subseteq 1 .. Len(queue'[p])
  BY <1>1 DEF Pending
<1>5. Pending(p, ops, q, ts)' = {i \in 1 .. Len(queue[p]) - d : i + d \in Pending(p, ops, q, ts)}
  BY <1>2, <1>3, <1>4
<1> QED
  BY <1>2, <1>5 DEF TeamsIn, Stays

(* What m sees of q stays what it was. *)
LEMMA WireSeen ==
  ASSUME Inv, Inv', OneFounder, SignUps,
         NEW p \in Players, NEW d \in {0, 1}, NEW k \in Nat, WireStep(p, d, k),
         NEW m \in Players, NEW q \in Players, q # m => q \notin Founders,
         OnlyBy(m, q), Placed(m, q), ServerTold(m, q)
  PROVE  /\ ServerTold(m, q)'
         /\ SeenTeam(m, q)' = SeenTeam(m, q)
         /\ \A t \in Teams : SeenMember(m, t, q)' = SeenMember(m, t, q)
<1>1. TypeOK /\ TypeOK' /\ Len(queue[m]) \in Nat /\ sent[m] \in Nat /\ sent'[m] \in Nat
  BY QueueTypes DEF Inv, TypeOK
<1>2. IsSeen(Puts(m, q), TeamsIn(m), teamOf[q], SeenTeam(m, q))
      /\ IsSeen(Puts(m, q)', TeamsIn(m)', teamOf'[q], SeenTeam(m, q)')
      /\ Puts(m, q)' \subseteq Nat /\ Puts(m, q) \subseteq 1 .. Len(queue[m])
  <2>1. Puts(m, q)' \subseteq 1 .. Len(queue'[m]) /\ Len(queue'[m]) \in Nat
    BY <1>1, LenProperties DEF Puts, Pending, TypeOK
  <2> QED
    BY <1>1, <2>1, SeenTeamIs, SeenTeamIsNext, PendingPlaces DEF Puts
<1>3. ASSUME NEW t \in Teams
      PROVE  /\ IsSeen(Lists(m, t, q), Stays(m), q \in team[t].members, SeenMember(m, t, q))
             /\ IsSeen(Lists(m, t, q)', Stays(m)', q \in team'[t].members, SeenMember(m, t, q)')
             /\ Lists(m, t, q)' \subseteq Nat /\ Lists(m, t, q) \subseteq 1 .. Len(queue[m])
  <2>1. Lists(m, t, q)' \subseteq 1 .. Len(queue'[m]) /\ Len(queue'[m]) \in Nat
    BY <1>1, LenProperties DEF Lists, Pending, TypeOK
  <2>2. IsSeen(Lists(m, t, q), Stays(m), q \in team[t].members, SeenMember(m, t, q))
    BY <1>1, SeenMemberIs
  <2>3. IsSeen(Lists(m, t, q)', Stays(m)', q \in team'[t].members, SeenMember(m, t, q)')
    BY <1>1, SeenMemberIsNext
  <2>4. Lists(m, t, q) \subseteq 1 .. Len(queue[m])
    BY <1>1, PendingPlaces DEF Lists
  <2>5. Lists(m, t, q)' \subseteq Nat
    BY <2>1
  <2> QED
    BY <2>2, <2>3, <2>4, <2>5, Zenon
<1>4. CASE p = m
  <2>1. k = sent'[m] + d
    BY <1>4 DEF WireStep
  <2>2. IsSeen(Puts(m, q)', TeamsIn(m)', teamOf'[q], SeenTeam(m, q))
        /\ Told(Puts(m, q)', TeamsIn(m)', sent'[m], teamOf'[q])
    <3>1. /\ Puts(m, q)' = {i \in 1 .. Len(queue[m]) - d : i + d \in Puts(m, q)}
          /\ \A i \in 1 .. Len(queue[m]) - d : TeamsIn(m)'[i] = TeamsIn(m)[i + d]
      BY <1>4, WirePlaces DEF Puts
    <3>2. Told(Puts(m, q), TeamsIn(m), sent[m], teamOf[q])
      BY DEF ServerTold
    <3>3. \/ teamOf'[q] = teamOf[q] /\ (k = 0 \/ k = sent[m] \/ (k = sent[m] + 1 /\ k \notin Puts(m, q)))
          \/ k \in Puts(m, q) /\ teamOf'[q] = TeamsIn(m)[k]
      BY <1>4, WireTeam
    <3>4. Follows(Len(queue[m]), d, Puts(m, q), sent[m], sent'[m], k, Puts(m, q)',
                  TeamsIn(m), TeamsIn(m)', teamOf[q], teamOf'[q])
      BY <1>1, <1>2, <2>1, <3>1, <3>2, <3>3 DEF Follows
    <3> QED
      BY <1>2, <3>4, SeenWire
  <2>3. ASSUME NEW t \in Teams
        PROVE  /\ IsSeen(Lists(m, t, q)', Stays(m)', q \in team'[t].members, SeenMember(m, t, q))
               /\ Told(Lists(m, t, q)', Stays(m)', sent'[m], q \in team'[t].members)
    <3>0. Lists(m, t, q)' = {i \in 1 .. Len(queue[m]) - d : i + d \in Lists(m, t, q)}
      BY <1>4, WirePlaces DEF Lists
    <3>1. \A i \in 1 .. Len(queue[m]) - d : Stays(m)'[i] = Stays(m)[i + d]
      BY <1>4, WirePlaces
    <3>2. Told(Lists(m, t, q), Stays(m), sent[m], q \in team[t].members)
      BY DEF ServerTold
    <3>3. \/ /\ (q \in team'[t].members) = (q \in team[t].members)
             /\ k = 0 \/ k = sent[m] \/ (k = sent[m] + 1 /\ k \notin Lists(m, t, q))
          \/ k \in Lists(m, t, q) /\ (q \in team'[t].members) = Stays(m)[k]
          \/ Lists(m, t, q) # {} /\ \A i \in Lists(m, t, q) : i > k
      BY <1>4, WireMember
    <3>4. PICK x, x2, y : /\ x = (q \in team[t].members) /\ x2 = (q \in team'[t].members)
                          /\ y = SeenMember(m, t, q)
      OBVIOUS
    <3>5. /\ Told(Lists(m, t, q), Stays(m), sent[m], x)
          /\ IsSeen(Lists(m, t, q), Stays(m), x, y)
      BY <1>3, <3>2, <3>4
    <3>6. \/ x2 = x /\ (k = 0 \/ k = sent[m] \/ (k = sent[m] + 1 /\ k \notin Lists(m, t, q)))
          \/ k \in Lists(m, t, q) /\ x2 = Stays(m)[k]
          \/ Lists(m, t, q) # {} /\ \A i \in Lists(m, t, q) : i > k
      BY <3>3, <3>4, Zenon
    <3>7. Follows(Len(queue[m]), d, Lists(m, t, q), sent[m], sent'[m], k, Lists(m, t, q)',
                  Stays(m), Stays(m)', x, x2)
      BY <1>1, <1>3, <2>1, <3>0, <3>1, <3>5, <3>6 DEF Follows
    <3>8. IsSeen(Lists(m, t, q)', Stays(m)', x2, y) /\ Told(Lists(m, t, q)', Stays(m)', sent'[m], x2)
      BY <3>5, <3>7, SeenWire
    <3> QED
      BY <3>4, <3>8
  <2>4. SeenTeam(m, q)' = SeenTeam(m, q)
    BY <1>2, <2>2, SeenOnce
  <2>5. ASSUME NEW t \in Teams PROVE SeenMember(m, t, q)' = SeenMember(m, t, q)
    <3>1. IsSeen(Lists(m, t, q)', Stays(m)', q \in team'[t].members, SeenMember(m, t, q))
          /\ IsSeen(Lists(m, t, q)', Stays(m)', q \in team'[t].members, SeenMember(m, t, q)')
          /\ Lists(m, t, q)' \subseteq Nat
      BY <1>3, <2>3
    <3> QED
      BY <3>1, SeenOnce, Zenon
  <2> QED
    BY <2>2, <2>3, <2>4, <2>5 DEF ServerTold
<1>5. CASE p # m
  <2>1. queue'[m] = queue[m] /\ sent'[m] = sent[m]
    BY <1>5 DEF WireStep
  <2>2. teamOf'[q] = teamOf[q]
    BY <1>5, WireTeam
  <2>3. \A t \in Teams : (q \in team'[t].members) = (q \in team[t].members)
    BY <1>5, WireMember
  <2>4. SeenTeam(m, q)' = SeenTeam(m, q)
    BY <2>1, <2>2 DEF SeenTeam, Pending, Latest
  <2>5. ASSUME NEW t \in Teams PROVE SeenMember(m, t, q)' = SeenMember(m, t, q)
    <3>1. PICK x : x = (q \in team[t].members) /\ x = (q \in team'[t].members)
      BY <2>3
    <3>2. SeenMember(m, t, q) = IF Lists(m, t, q) = {} THEN x ELSE Latest(m, Lists(m, t, q)).op # "unlist"
      BY <3>1, Zenon DEF SeenMember, Lists
    <3>3. SeenMember(m, t, q)' = IF Lists(m, t, q)' = {} THEN x ELSE Latest(m, Lists(m, t, q))'.op # "unlist"
      BY <3>1, Zenon DEF SeenMember, Lists
    <3>4. Lists(m, t, q)' = Lists(m, t, q) /\ Latest(m, Lists(m, t, q))' = Latest(m, Lists(m, t, q))
      BY <2>1 DEF Lists, Pending, Latest
    <3> QED
      BY <3>2, <3>3, <3>4
  <2>6. Told(Puts(m, q)', TeamsIn(m)', sent'[m], teamOf'[q])
    BY <2>1, <2>2 DEF ServerTold, Puts, Pending, TeamsIn
  <2>7. ASSUME NEW t \in Teams
        PROVE  Told(Lists(m, t, q)', Stays(m)', sent'[m], q \in team'[t].members)
    <3>1. Lists(m, t, q)' = Lists(m, t, q) /\ Stays(m)' = Stays(m)
      BY <2>1 DEF Lists, Pending, Stays
    <3>2. Told(Lists(m, t, q), Stays(m), sent[m], q \in team[t].members)
      BY DEF ServerTold
    <3> QED
      BY <2>1, <2>3, <3>1, <3>2
  <2> QED
    BY <2>4, <2>5, <2>6, <2>7 DEF ServerTold
<1> QED
  BY <1>4, <1>5

LEMMA WirePlaced ==
  ASSUME Inv, Inv', OneFounder, SignUps,
         NEW p \in Players, NEW d \in {0, 1}, NEW k \in Nat, WireStep(p, d, k),
         NEW m \in Players, NEW q \in Players, q # m => q \notin Founders,
         OnlyBy(m, q), Placed(m, q)
  PROVE  Placed(m, q)'
<1>0. /\ Len(queue[p]) \in Nat /\ k <= Len(queue[p])
      /\ \A i \in 1 .. Len(queue[p]) : i > d =>
           /\ i - d \in 1 .. Len(queue'[p]) /\ (i - d) + d = i
           /\ queue'[p][i - d] = queue[p][i]
      /\ DOMAIN queue[m] = 1 .. Len(queue[m]) /\ DOMAIN queue'[m] = 1 .. Len(queue'[m])
  BY WireTypes, LenProperties DEF Inv, TypeOK
<1>1. ASSUME NEW t \in Teams, k \in 1 .. Len(queue[m]), Born(m, k, t), p = m
      PROVE  team'[t].manager = m
  <2>1. CASE team[t].manager = m
    BY <2>1, WireFounding
  <2>2. CASE \E j \in 1 .. k - 1 : Creates(m, j, t)
    <3>1. PICK j \in 1 .. k - 1 : Creates(m, j, t)
      BY <2>2
    <3>2. j \in 1 .. Len(queue[p]) /\ j <= k
      BY <1>0, <1>1, <3>1
    <3> QED
      BY <1>1, <3>1, <3>2, WireFounding
  <2> QED
    BY <1>1, <2>1, <2>2 DEF Born
<1>2. ASSUME NEW t \in Teams, teamOf'[q] = t PROVE team'[t].manager = m
  <2>1. CASE teamOf'[q] = teamOf[q]
    BY <1>2, <2>1, WireFounding DEF Placed
  <2>2. CASE p = m /\ k \in Puts(m, q) /\ teamOf'[q] = TeamsIn(m)[k]
    <3>1. /\ k \in 1 .. Len(queue[m]) /\ queue[m][k].op \in {"signup", "put"}
          /\ queue[m][k].player = q /\ queue[m][k].team = t
      BY <1>0, <1>2, <2>2 DEF Puts, Pending, TeamsIn
    <3>2. t # NoTeam
      BY TeamsAssumption
    <3>3. queue[m][k].op = "put"
      BY <3>1, <3>2 DEF SignUps
    <3>4. Born(m, k, t)
      BY <3>1, <3>2, <3>3 DEF OnlyBy, GoodMember, MemberOps
    <3> QED
      BY <1>1, <2>2, <3>1, <3>4
  <2> QED
    BY <2>1, <2>2, WireTeam
<1>3. ASSUME NEW t \in Teams, q \in team'[t].members
      PROVE  /\ team'[t].manager = m
             /\ q \in team[t].members \/ (p = m /\ k \in Lists(m, t, q))
  <2>1. CASE q \in team[t].members
    BY <2>1, WireFounding DEF Placed
  <2>2. CASE q \notin team[t].members
    <3>0. p = m /\ k \in Lists(m, t, q) /\ (q \in team'[t].members) = Stays(m)[k]
      <4>1. (q \in team'[t].members) # (q \in team[t].members)
        BY <1>3, <2>2
      <4> QED
        BY <1>3, <4>1, WireMember
    <3>1. p = m /\ k \in Lists(m, t, q) /\ Stays(m)[k]
      BY <1>3, <3>0, Zenon
    <3>2. /\ k \in 1 .. Len(queue[m]) /\ queue[m][k].op \in {"create", "list"}
          /\ queue[m][k].player = q /\ queue[m][k].team = t
      BY <1>0, <3>1 DEF Lists, Pending, Stays
    <3>3. CASE queue[m][k].op = "create"
      <4>1. Creates(p, k, t) /\ k <= k /\ k \in 1 .. Len(queue[p])
        BY <3>1, <3>2, <3>3 DEF Creates
      <4> QED
        BY <3>1, <4>1, WireFounding
    <3>4. CASE queue[m][k].op = "list"
      <4>1. Born(m, k, t)
        BY <3>2, <3>4 DEF OnlyBy, GoodMember, MemberOps
      <4> QED
        BY <1>1, <3>1, <3>2, <4>1
    <3> QED
      BY <3>1, <3>2, <3>3, <3>4
  <2> QED
    BY <2>1, <2>2
<1>4. ASSUME NEW t \in Teams, q \in team'[t].members,
             NEW i \in 1 .. Len(queue'[m]), Creates(m, i, t)'
      PROVE  Lists(m, t, q)' # {}
  <2>1. CASE q = m
    <3>1. queue'[m][i].player = m
      BY <1>4 DEF Inv, Writes, GoodWrite, Creates
    <3>2. i \in Lists(m, t, q)'
      BY <1>0, <1>4, <2>1, <3>1 DEF Lists, Pending, Creates
    <3> QED
      BY <3>2
  <2>2. CASE q # m
    <3>1. PICK y \in 1 .. Len(queue[m]) :
            queue'[m][i] = queue[m][y] /\ (m = p => y = i + d) /\ (m # p => y = i)
      BY WireOld
    <3>2. Creates(m, y, t)
      BY <1>4, <3>1 DEF Creates
    <3>3. Lists(m, t, q) # {}
      BY <1>3, <1>4, <3>2 DEF Placed
    <3>4. PICK j \in Lists(m, t, q) : TRUE
      BY <3>3
    <3>5. /\ j \in 1 .. Len(queue[m]) /\ queue[m][j].player = q /\ queue[m][j].team = t
          /\ queue[m][j].op \in {"create", "list", "unlist"}
      BY <1>0, <3>4 DEF Lists, Pending
    <3>6. queue[m][j].op \in {"list", "unlist"}
      BY <2>2, <3>5 DEF Inv, Writes, GoodWrite
    <3>7. y < j
      BY <3>2, <3>5, <3>6 DEF OnlyBy, GoodMember, MemberOps
    <3>8. CASE m = p
      <4>1. j > d
        BY <3>1, <3>5, <3>7, <3>8
      <4>2. j - d \in 1 .. Len(queue'[p]) /\ queue'[p][j - d] = queue[p][j]
        BY <1>0, <3>5, <3>8, <4>1
      <4>3. j - d \in Lists(m, t, q)'
        BY <1>0, <3>5, <3>8, <4>2 DEF Lists, Pending
      <4> QED
        BY <4>3
    <3>9. CASE m # p
      <4>1. queue'[m] = queue[m]
        BY <3>9 DEF WireStep
      <4> QED
        BY <3>3, <4>1 DEF Lists, Pending
    <3> QED
      BY <3>8, <3>9
  <2> QED
    BY <2>1, <2>2
<1>5. ASSUME NEW t \in Teams, q \in team'[t].members, \E i \in 1 .. Len(queue'[m]) : Creates(m, i, t)'
      PROVE  Lists(m, t, q)' # {}
  BY <1>4, <1>5
<1> QED
  BY <1>2, <1>3, <1>5 DEF Placed, Creates

LEMMA WireNamed ==
  ASSUME Inv, Inv', OneFounder,
         NEW p \in Players, NEW d \in {0, 1}, NEW k \in Nat, WireStep(p, d, k),
         NEW m \in Players, NEW t \in Teams, Founds(m, t), Named(m, t)
  PROVE  Named(m, t)'
<1>0. /\ Len(queue[p]) \in Nat /\ k <= Len(queue[p]) /\ sent[p] \in Nat /\ k = sent'[p] + d /\ sent'[p] \in Nat
      /\ \A i \in 1 .. Len(queue[p]) : i > d =>
           /\ i - d \in 1 .. Len(queue'[p]) /\ (i - d) + d = i
           /\ queue'[p][i - d] = queue[p][i]
      /\ NoPlayer \notin Players /\ team[t] \in TeamDoc /\ Len(queue[m]) \in Nat
  <2>1. /\ Len(queue[p]) \in Nat /\ k <= Len(queue[p]) /\ sent[p] \in Nat /\ sent'[p] \in Nat
        /\ \A i \in 1 .. Len(queue[p]) : i > d =>
             /\ i - d \in 1 .. Len(queue'[p]) /\ (i - d) + d = i
             /\ queue'[p][i - d] = queue[p][i]
    BY WireTypes
  <2>2. k = sent'[p] + d
    BY DEF WireStep
  <2>3. team[t] \in TeamDoc /\ Len(queue[m]) \in Nat
    BY QueueTypes DEF Inv, TypeOK
  <2> QED
    BY <2>1, <2>2, <2>3, TeamsAssumption
<1>1. ASSUME team[t].named, ~(p = m /\ k = sent[p] + 1 /\ k \in 1 .. Len(queue[p]) /\ Creates(p, k, t))
      PROVE  team'[t].named
  <2>1. CASE UNCHANGED <<teamOf, team>>
    BY <1>1, <2>1
  <2>2. CASE k = sent[p] + 1 /\ k \in 1 .. Len(queue[p]) /\ Arrive(queue[p][k])
    <3>1. PICK w : w = queue[p][k]
      OBVIOUS
    <3>2. w \in Write /\ team'[t] = IF t = w.team THEN Applied(team[t], w) ELSE team[t]
      BY <2>2, <3>1, WireArrives
    <3>3. w.op \in {"signup", "create", "name", "put", "list", "unlist"}
      BY <3>2, WriteTypes
    <3>4. CASE w.op = "create" /\ w.team = t
      <4>1. Creates(p, k, t)
        BY <3>1, <3>4 DEF Creates
      <4>2. /\ team[t].manager \in {NoPlayer, p}
            /\ \A j \in 1 .. Len(queue[m]) : Creates(m, j, t) => m = p
        BY <2>2, <4>1 DEF OneFounder
      <4>3. p # m
        BY <1>1, <2>2, <4>1
      <4> QED
        BY <1>0, <4>2, <4>3 DEF Founds, Born
    <3>5. CASE ~(w.op = "create" /\ w.team = t)
      BY <1>0, <1>1, <3>2, <3>3, <3>5 DEF Applied, TeamDoc
    <3> QED
      BY <3>4, <3>5
  <2> QED
    BY <2>1, <2>2 DEF WireStep
<1>2. ASSUME NEW i \in 1 .. Len(queue'[m]), Creates(m, i, t)'
      PROVE  \E y \in 1 .. Len(queue[m]) :
               Creates(m, y, t) /\ (m = p => y = i + d) /\ (m # p => y = i)
  <2>1. \E j \in 1 .. Len(queue[m]) :
          queue'[m][i] = queue[m][j] /\ (m = p => j = i + d) /\ (m # p => j = i)
    BY WireOld
  <2> QED
    BY <1>2, <2>1 DEF Creates
<1>3. CASE team[t].named /\ \A i \in 1 .. Len(queue[m]) : ~Creates(m, i, t)
  <2>1. team'[t].named
    BY <1>1, <1>3
  <2>2. \A i \in 1 .. Len(queue'[m]) : ~Creates(m, i, t)'
    BY <1>2, <1>3
  <2> QED
    BY <2>1, <2>2 DEF Named, Creates
<1>4. ASSUME NEW j \in 1 .. Len(queue[m]),
             queue[m][j].op = "name", queue[m][j].player = m, queue[m][j].team = t,
             \A i \in 1 .. Len(queue[m]) : Creates(m, i, t) => i < j,
             j <= sent[m] => team[t].named
      PROVE  Named(m, t)'
  <2>1. CASE p # m
    <3>1. queue'[m] = queue[m] /\ sent'[m] = sent[m]
      BY <2>1 DEF WireStep
    <3>2. team[t].named => team'[t].named
      BY <1>1, <2>1
    <3>3. j \in 1 .. Len(queue'[m]) /\ (j <= sent'[m] => team'[t].named)
      BY <1>4, <3>1, <3>2
    <3>4. /\ queue'[m][j].op = "name" /\ queue'[m][j].player = m /\ queue'[m][j].team = t
          /\ \A i \in 1 .. Len(queue'[m]) : Creates(m, i, t)' => i < j
      BY <1>4, <3>1 DEF Creates
    <3> QED
      BY <3>3, <3>4 DEF Named, Creates
  <2>2. CASE p = m
    <3>1. ASSUME j <= k PROVE team'[t].named
      <4>1. CASE j <= sent[p]
        <5>1. ~(k = sent[p] + 1 /\ k \in 1 .. Len(queue[p]) /\ Creates(p, k, t))
          BY <1>0, <1>4, <2>2, <4>1
        <5> QED
          BY <1>1, <1>4, <2>2, <4>1, <5>1
      <4>2. CASE ~(j <= sent[p])
        <5>1. j = k /\ k = sent[p] + 1 /\ k \in 1 .. Len(queue[p]) /\ Arrive(queue[p][k])
          BY <1>0, <3>1, <4>2 DEF WireStep
        <5>2. team[t].manager = m
          <6>1. CASE \E i \in 1 .. (Len(queue[m]) + 1) - 1 : Creates(m, i, t)
            <7>1. PICK i \in 1 .. Len(queue[m]) : Creates(m, i, t)
              BY <1>0, <6>1
            <7>2. i <= sent[m]
              BY <1>0, <1>4, <2>2, <5>1, <7>1
            <7> QED
              BY <1>0, <7>1, <7>2 DEF OneFounder, Inv, Writes, GoodWrite, Creates, Exists
          <6> QED
            BY <6>1 DEF Founds, Born
        <5>3. team[t] # NoDoc
          BY <1>0, <5>2 DEF NoDoc
        <5>4. team'[t] = Applied(team[t], queue[p][k])
          BY <1>4, <2>2, <5>1, WireArrives
        <5> QED
          BY <1>0, <1>4, <2>2, <5>1, <5>3, <5>4 DEF Applied, TeamDoc
      <4> QED
        BY <4>1, <4>2
    <3>2. CASE j > d
      <4>1. PICK x \in 1 .. Len(queue'[m]) : x + d = j /\ queue'[m][x] = queue[m][j]
        BY <1>0, <2>2, <3>2
      <4>2. \A i \in 1 .. Len(queue'[m]) : Creates(m, i, t)' => i < x
        BY <1>2, <1>4, <2>2, <4>1
      <4>3. x <= sent'[m] => team'[t].named
        BY <1>0, <2>2, <3>1, <4>1
      <4>4. /\ queue'[m][x].op = "name" /\ queue'[m][x].player = m /\ queue'[m][x].team = t
        BY <1>4, <4>1
      <4> QED
        BY <4>2, <4>3, <4>4 DEF Named, Creates
    <3>3. CASE ~(j > d)
      <4>1. j = 1 /\ d = 1 /\ j <= k
        BY <1>0, <3>3
      <4>2. \A i \in 1 .. Len(queue'[m]) : ~Creates(m, i, t)'
        BY <1>2, <1>4, <2>2, <4>1
      <4> QED
        BY <3>1, <4>1, <4>2 DEF Named, Creates
    <3> QED
      BY <3>2, <3>3
  <2> QED
    BY <2>1, <2>2
<1> QED
  BY <1>3, <1>4 DEF Named

LEMMA SoleSelf == \A m \in Uninvited : m \in Sole[m]
  BY DEF Uninvited, Sole

LEMMA WireRosterInv ==
  ASSUME Inv, Inv', RosterInv,
         NEW p \in Players, NEW d \in {0, 1}, NEW k \in Nat, WireStep(p, d, k)
  PROVE  RosterInv'
<1>1. OneFounder /\ SignUps /\ UNCHANGED <<calls, ud, screen>>
  BY DEF RosterInv, WireStep
<1>2. OneFounder' /\ SignUps'
  BY <1>1, WireOneFounder, WireSignUps
<1>3. Invited'
  BY <1>1 DEF RosterInv, Invited
<1>4. ASSUME NEW m \in Uninvited, NEW q \in Sole[m]
      PROVE  Roster(m, q)' /\ SeenTeam(m, q)' = SeenTeam(m, q)
  <2>1. m \in Players /\ q \in Players /\ (q # m => q \notin Founders)
    BY SoleFacts
  <2>2. OnlyBy(m, q) /\ Placed(m, q) /\ Removals(m, q) /\ ServerTold(m, q) /\ Agree(m, q)
    BY DEF RosterInv, Roster
  <2>3. OnlyBy(m, q)' /\ Placed(m, q)'
    BY <1>1, <2>1, <2>2, WireOnlyBy, WirePlaced
  <2>4. /\ ServerTold(m, q)' /\ SeenTeam(m, q)' = SeenTeam(m, q)
        /\ \A t \in Teams : SeenMember(m, t, q)' = SeenMember(m, t, q)
    BY <1>1, <2>1, <2>2, WireSeen
  <2>5. Agree(m, q)'
    BY <2>2, <2>4 DEF Agree
  <2>6. Removals(m, q)'
    <3>1. SUFFICES ASSUME NEW c \in calls', c.kind = "remove", c.player = q, c.phone # m
                   PROVE  c.team \in Teams /\ team'[c.team].manager = m
      BY DEF Removals
    <3>2. c.team \in Teams /\ team[c.team].manager = m
      BY <1>1, <2>2, <3>1 DEF Removals
    <3> QED
      BY <1>1, <2>1, <3>2, WireFounding
  <2> QED
    BY <2>3, <2>4, <2>5, <2>6 DEF Roster
<1>5. ASSUME NEW m \in Uninvited PROVE Keeps(m)'
  <2>1. m \in Players /\ Keeps(m)
    BY SoleFacts, SoleSelf DEF RosterInv
  <2>2. \A t : Founds(m, t) <=> Founds(m, t)'
    BY <1>1, <2>1, WireBorn
  <2>3. ASSUME NEW t \in Teams, Founds(m, t)'
        PROVE  /\ ud'[m] = t /\ screen'[m] \in {"home", "team"}
               /\ SeenTeam(m, m)' = t /\ Named(m, t)'
    <3>1. /\ ud[m] = t /\ screen[m] \in {"home", "team"}
          /\ SeenTeam(m, m) = t /\ Named(m, t) /\ Founds(m, t)
      BY <2>1, <2>2, <2>3 DEF Keeps
    <3>2. SeenTeam(m, m)' = SeenTeam(m, m)
      BY <1>4, SoleSelf
    <3>3. Named(m, t)'
      BY <1>1, <2>1, <3>1, WireNamed
    <3> QED
      BY <1>1, <3>1, <3>2, <3>3
  <2>4. ud'[m] \in Teams => Founds(m, ud[m])' 
    BY <1>1, <2>1, <2>2 DEF Keeps, Founds, Born, Creates
  <2>5. \A c \in calls' : c.phone = m /\ c.kind \in {"add", "query", "remove"} => Founds(m, c.team)'
    BY <1>1, <2>1, <2>2 DEF Keeps
  <2> QED
    BY <2>3, <2>4, <2>5 DEF Keeps
<1> QED
  BY <1>2, <1>3, <1>4, <1>5 DEF RosterInv

-----------------------------------------------------------------------------
(* Steps of a phone *)

Fresh(t) ==
  team[t] = NoDoc /\ \A e \in Players : \A j \in 1 .. Len(queue[e]) : ~Creates(e, j, t)

(* Place i is one p's queue has grown by. *)
New(p, i) == i \in 1 .. Len(queue'[p]) /\ i > Len(queue[p])

(* p's phone does something: its queue grows at most, and so does what the  *)
(* step founds, signs up and puts into teams.                               *)
PhoneStep(p) ==
  /\ Len(queue'[p]) >= Len(queue[p])
  /\ \A i \in 1 .. Len(queue[p]) : queue'[p][i] = queue[p][i]
  /\ \A e \in Players : e # p => queue'[e] = queue[e] /\ ud'[e] = ud[e] /\ screen'[e] = screen[e]
  /\ screen'[p] = "new" => screen[p] = "new"
  /\ screen[p] = "new" /\ screen'[p] # "new" => \E i : New(p, i) /\ queue'[p][i].op = "signup"
  /\ UNCHANGED <<sent, teamOf, team>>

NewWrites(p) ==
  \A i : New(p, i) =>
    /\ queue'[p][i].op = "create" => p \in Founders /\ Fresh(queue'[p][i].team)
    /\ queue'[p][i].op = "signup" =>
         queue'[p][i].player = p /\ queue'[p][i].team = NoTeam /\ p \notin Registered
    /\ \A m \in Uninvited : \A q \in Sole[m] : GoodMember(m, q, p, i)'

NewCalls(p) ==
  \A c \in calls' : c \notin calls =>
    /\ c.phone = p /\ screen'[p] # "new"
    /\ c.kind \in {"add", "query"} => c.player \in Invites[p]
    /\ c.kind = "remove" =>
         \A m \in Uninvited :
           m # p /\ c.player \in Sole[m] => c.team \in Teams /\ team[c.team].manager = m

LEMMA PhoneTypes ==
  ASSUME Inv, Inv', NEW p \in Players, PhoneStep(p), NEW e \in Players
  PROVE  /\ Len(queue[e]) \in Nat /\ Len(queue'[e]) \in Nat /\ Len(queue[e]) <= Len(queue'[e])
         /\ DOMAIN queue[e] = 1 .. Len(queue[e]) /\ DOMAIN queue'[e] = 1 .. Len(queue'[e])
         /\ sent[e] \in Nat /\ sent[e] <= Len(queue[e])
         /\ \A i \in 1 .. Len(queue[e]) : i \in 1 .. Len(queue'[e]) /\ queue'[e][i] = queue[e][i]
         /\ \A i \in 1 .. Len(queue'[e]) : ~(i \in 1 .. Len(queue[e])) => e = p /\ New(p, i)
<1>1. TypeOK /\ TypeOK'
  BY DEF Inv
<1>2. /\ Len(queue[e]) \in Nat /\ DOMAIN queue[e] = 1 .. Len(queue[e])
      /\ sent[e] \in Nat /\ sent[e] <= Len(queue[e])
  BY <1>1, QueueTypes
<1>3. Len(queue'[e]) \in Nat /\ DOMAIN queue'[e] = 1 .. Len(queue'[e])
  BY <1>1, LenProperties DEF TypeOK
<1>4. CASE e = p
  BY <1>2, <1>3, <1>4 DEF PhoneStep, New
<1>5. CASE e # p
  BY <1>2, <1>3, <1>5 DEF PhoneStep, New
<1> QED
  BY <1>2, <1>3, <1>4, <1>5

LEMMA PhoneBorn ==
  ASSUME Inv, Inv', NEW p \in Players, PhoneStep(p), NEW e \in Players, NEW t
  PROVE  /\ \A i \in 1 .. Len(queue[e]) + 1 : Born(e, i, t) => Born(e, i, t)'
         /\ \A i \in Nat : Founds(e, t) /\ i > Len(queue[e]) => Born(e, i, t)'
         /\ Founds(e, t) => Founds(e, t)'
         /\ Founds(e, t)' => Founds(e, t) \/ (e = p /\ \E i : New(p, i) /\ Creates(p, i, t)')
<1>1. /\ Len(queue[e]) \in Nat /\ Len(queue'[e]) \in Nat /\ Len(queue[e]) <= Len(queue'[e])
      /\ \A i \in 1 .. Len(queue[e]) : i \in 1 .. Len(queue'[e]) /\ queue'[e][i] = queue[e][i]
      /\ \A i \in 1 .. Len(queue'[e]) : ~(i \in 1 .. Len(queue[e])) => e = p /\ New(p, i)
  BY PhoneTypes
<1>2. team' = team
  BY DEF PhoneStep
<1>3. ASSUME NEW j \in 1 .. Len(queue[e]) PROVE Creates(e, j, t) <=> Creates(e, j, t)'
  BY <1>1 DEF Creates
<1>4. ASSUME NEW i \in 1 .. Len(queue[e]) + 1, Born(e, i, t) PROVE Born(e, i, t)'
  <2>1. \A j \in 1 .. i - 1 : j \in 1 .. Len(queue[e])
    BY <1>1
  <2> QED
    BY <1>2, <1>3, <1>4, <2>1 DEF Born, Creates
<1>5. ASSUME NEW i \in Nat, Founds(e, t), i > Len(queue[e]) PROVE Born(e, i, t)'
  <2>1. \A j \in 1 .. (Len(queue[e]) + 1) - 1 : j \in 1 .. Len(queue[e]) /\ j \in 1 .. i - 1
    BY <1>1, <1>5
  <2> QED
    BY <1>2, <1>3, <1>5, <2>1 DEF Founds, Born, Creates
<1>6. ASSUME Founds(e, t) PROVE Founds(e, t)'
  <2>1. Len(queue'[e]) + 1 \in Nat /\ Len(queue'[e]) + 1 > Len(queue[e])
    BY <1>1
  <2>2. PICK i \in Nat : i = Len(queue'[e]) + 1 /\ i > Len(queue[e])
    BY <2>1
  <2>3. Born(e, i, t)'
    BY <1>5, <1>6, <2>2
  <2> QED
    BY <2>2, <2>3 DEF Founds, Born, Creates
<1>7. ASSUME Founds(e, t)', ~Founds(e, t)
      PROVE  e = p /\ \E i : New(p, i) /\ Creates(p, i, t)'
  <2>1. t \in Teams /\ team'[t].manager # e
    BY <1>2, <1>7 DEF Founds, Born
  <2>2. PICK i \in 1 .. (Len(queue'[e]) + 1) - 1 : Creates(e, i, t)'
    BY <1>7, <2>1 DEF Founds, Born
  <2>3. i \in 1 .. Len(queue'[e])
    BY <1>1
  <2>4. ~(i \in 1 .. Len(queue[e]))
    <3>1. SUFFICES ASSUME i \in 1 .. Len(queue[e]) PROVE FALSE
      OBVIOUS
    <3>2. Creates(e, i, t) /\ i \in 1 .. (Len(queue[e]) + 1) - 1
      BY <1>1, <1>3, <2>2, <3>1
    <3> QED
      BY <1>7, <2>1, <3>2 DEF Founds, Born
  <2> QED
    BY <1>1, <2>2, <2>3, <2>4
<1> QED
  BY <1>4, <1>5, <1>6, <1>7

LEMMA PhoneOneFounder ==
  ASSUME Inv, Inv', OneFounder, NEW p \in Players, PhoneStep(p), NewWrites(p)
  PROVE  OneFounder'
<1>1. ASSUME NEW e \in Players, NEW i \in 1 .. Len(queue'[e]), NEW t \in Teams, Creates(e, i, t)'
      PROVE  \/ i \in 1 .. Len(queue[e]) /\ Creates(e, i, t)
             \/ e = p /\ p \in Founders /\ Fresh(t)
  <2>1. CASE i \in 1 .. Len(queue[e])
    BY <1>1, <2>1, PhoneTypes DEF Creates
  <2>2. CASE ~(i \in 1 .. Len(queue[e]))
    <3>1. e = p /\ New(p, i)
      BY <2>2, PhoneTypes
    <3> QED
      BY <1>1, <3>1 DEF NewWrites, Creates
  <2> QED
    BY <2>1, <2>2
<1>2. ASSUME NEW e \in Players, NEW i \in 1 .. Len(queue'[e]), NEW t \in Teams, Creates(e, i, t)'
      PROVE  e \in Founders /\ team'[t].manager \in {NoPlayer, e}
  BY <1>1, <1>2 DEF OneFounder, PhoneStep, Fresh, NoDoc
<1>3. ASSUME NEW e \in Players, NEW i \in 1 .. Len(queue'[e]), NEW t \in Teams, Creates(e, i, t)',
             NEW f \in Players, NEW j \in 1 .. Len(queue'[f]), Creates(f, j, t)'
      PROVE  f = e
  <2>1. \/ i \in 1 .. Len(queue[e]) /\ Creates(e, i, t)
        \/ e = p /\ Fresh(t)
    BY <1>1, <1>3
  <2>2. \/ j \in 1 .. Len(queue[f]) /\ Creates(f, j, t)
        \/ f = p /\ Fresh(t)
    BY <1>1, <1>3
  <2> QED
    BY <2>1, <2>2 DEF OneFounder, Fresh
<1> QED
  <2>1. SUFFICES ASSUME NEW e \in Players, NEW i \in 1 .. Len(queue'[e]), NEW t \in Teams,
                        Creates(e, i, t)'
                 PROVE  /\ e \in Founders /\ team'[t].manager \in {NoPlayer, e}
                        /\ \A f \in Players : \A j \in 1 .. Len(queue'[f]) :
                             Creates(f, j, t)' => f = e
    BY DEF OneFounder, Creates
  <2> QED
    BY <1>2, <1>3, <2>1

LEMMA PhoneSignUps ==
  ASSUME Inv, Inv', SignUps, NEW p \in Players, PhoneStep(p), NewWrites(p), NewCalls(p)
  PROVE  SignUps'
<1>1. ASSUME NEW c \in calls' PROVE screen'[c.phone] # "new"
  <2>1. CASE c \in calls
    BY <2>1 DEF SignUps, PhoneStep, Inv, TypeOK, Call
  <2>2. CASE c \notin calls
    BY <2>2 DEF NewCalls
  <2> QED
    BY <2>1, <2>2
<1>2. ASSUME NEW e \in Players, NEW i \in 1 .. Len(queue'[e]), queue'[e][i].op = "signup"
      PROVE  /\ queue'[e][i].player = e /\ queue'[e][i].team = NoTeam /\ e \notin Registered
             /\ i <= sent'[e] => teamOf'[e] # Missing
  <2>1. CASE i \in 1 .. Len(queue[e])
    BY <1>2, <2>1, PhoneTypes DEF SignUps, PhoneStep
  <2>2. CASE ~(i \in 1 .. Len(queue[e]))
    <3>1. e = p /\ New(p, i) /\ sent'[e] = sent[e]
      BY <2>2, PhoneTypes DEF PhoneStep
    <3>2. ~(i <= sent'[e])
      BY <3>1, PhoneTypes DEF New
    <3> QED
      BY <1>2, <3>1, <3>2 DEF NewWrites
  <2> QED
    BY <2>1, <2>2
<1>3. ASSUME NEW e \in Players
      PROVE  /\ screen'[e] = "new" => e \notin Registered
             /\ e \in Registered => teamOf'[e] # Missing
  BY DEF SignUps, PhoneStep
<1>4. ASSUME NEW e \in Players, screen'[e] # "new", teamOf'[e] = Missing
      PROVE  \E i \in 1 .. Len(queue'[e]) : queue'[e][i].op = "signup"
  <2>1. teamOf[e] = Missing
    BY <1>4 DEF PhoneStep
  <2>2. CASE screen[e] # "new"
    <3>1. PICK j \in 1 .. Len(queue[e]) : queue[e][j].op = "signup"
      BY <2>1, <2>2 DEF SignUps
    <3> QED
      BY <3>1, PhoneTypes
  <2>3. CASE screen[e] = "new"
    BY <1>4, <2>3 DEF PhoneStep, New
  <2> QED
    BY <2>2, <2>3
<1> QED
  BY <1>1, <1>2, <1>3, <1>4 DEF SignUps

LEMMA PhonePlaces ==
  ASSUME Inv, Inv', NEW p \in Players, PhoneStep(p), NEW e \in Players, NEW ops, NEW q, NEW ts
  PROVE  /\ Pending(e, ops, q, ts)' \subseteq Nat
         /\ \A i \in Nat : i <= Len(queue[e]) =>
              (i \in Pending(e, ops, q, ts)' <=> i \in Pending(e, ops, q, ts))
         /\ (\A i : New(p, i) => i \notin Pending(p, ops, q, ts)') =>
              Pending(e, ops, q, ts)' = Pending(e, ops, q, ts)
         /\ Pending(e, ops, q, ts) \subseteq Pending(e, ops, q, ts)'
         /\ \A i \in 1 .. Len(queue[e]) : TeamsIn(e)'[i] = TeamsIn(e)[i] /\ Stays(e)'[i] = Stays(e)[i]
<1> DEFINE S  == Pending(e, ops, q, ts)
           S2 == Pending(e, ops, q, ts)'
<1>1. /\ Len(queue[e]) \in Nat /\ Len(queue'[e]) \in Nat /\ Len(queue[e]) <= Len(queue'[e])
      /\ DOMAIN queue[e] = 1 .. Len(queue[e]) /\ DOMAIN queue'[e] = 1 .. Len(queue'[e])
      /\ \A i \in 1 .. Len(queue[e]) : i \in 1 .. Len(queue'[e]) /\ queue'[e][i] = queue[e][i]
      /\ \A i \in 1 .. Len(queue'[e]) : ~(i \in 1 .. Len(queue[e])) => e = p /\ New(p, i)
  BY PhoneTypes
<1>2. S2 \subseteq 1 .. Len(queue'[e]) /\ S \subseteq 1 .. Len(queue[e])
  BY <1>1 DEF Pending
<1>3. \A i \in 1 .. Len(queue[e]) : i \in S2 <=> i \in S
  BY <1>1 DEF Pending
<1>4. \A i \in 1 .. Len(queue[e]) : TeamsIn(e)'[i] = TeamsIn(e)[i] /\ Stays(e)'[i] = Stays(e)[i]
  BY <1>1 DEF TeamsIn, Stays
<1> HIDE DEF S, S2
<1>5. \A i \in Nat : i <= Len(queue[e]) => (i \in S2 <=> i \in S)
  BY <1>1, <1>2, <1>3
<1>6. S \subseteq S2
  BY <1>2, <1>3
<1>7. ASSUME \A i : New(p, i) => i \notin Pending(p, ops, q, ts)' PROVE S2 = S
  <2>1. \A i \in S2 : i \in 1 .. Len(queue[e])
    BY <1>1, <1>2, <1>7 DEF S2
  <2> QED
    BY <1>3, <1>6, <2>1
<1> QED
  BY <1>1, <1>2, <1>4, <1>5, <1>6, <1>7 DEF S, S2

LEMMA PhoneOnlyBy ==
  ASSUME Inv, Inv', NEW p \in Players, PhoneStep(p), NewWrites(p),
         NEW m \in Uninvited, NEW q \in Sole[m], OnlyBy(m, q)
  PROVE  OnlyBy(m, q)'
<1>1. m \in Players /\ q \in Players /\ NoPlayer \notin Players
  BY SoleFacts, TeamsAssumption
<1>2. SUFFICES ASSUME NEW e \in Players, NEW i \in 1 .. Len(queue'[e])
               PROVE  GoodMember(m, q, e, i)'
  BY DEF OnlyBy
<1>3. CASE ~(i \in 1 .. Len(queue[e]))
  <2>1. e = p /\ New(p, i)
    BY <1>3, PhoneTypes
  <2>2. GoodMember(m, q, p, i)'
    BY <2>1 DEF NewWrites
  <2> QED
    BY <2>1, <2>2 DEF GoodMember, Born, Creates
<1>4. CASE i \in 1 .. Len(queue[e])
  <2>1. SUFFICES ASSUME NEW w, w = queue'[e][i], w.player = q, w.op \in MemberOps
                 PROVE  /\ e = m
                        /\ w.op = "put" =>
                             /\ w.team = NoTeam \/ Born(m, i, w.team)'
                             /\ \/ teamOf'[q] # Missing
                                \/ q = m /\ \E j \in 1 .. i - 1 : queue'[e][j].op = "signup"
                        /\ w.op \in {"list", "unlist"} =>
                             /\ Born(m, i, w.team)'
                             /\ \A j \in 1 .. Len(queue'[m]) : Creates(m, j, w.team)' => j < i
    BY DEF GoodMember, Born, Creates
  <2>2. GoodMember(m, q, e, i) /\ w = queue[e][i] /\ e = m
    <3>1. queue'[e][i] = queue[e][i]
      BY <1>4, PhoneTypes
    <3>2. GoodMember(m, q, e, i)
      BY <1>4 DEF OnlyBy
    <3> QED
      BY <2>1, <3>1, <3>2 DEF GoodMember
  <2>3. \A t : Born(m, i, t) => Born(m, i, t)'
    <3>1. i \in 1 .. Len(queue[m]) + 1
      BY <1>4, <2>2, PhoneTypes
    <3> QED
      BY <1>1, <3>1, PhoneBorn
  <2>4. ASSUME w.op = "put", teamOf'[q] = Missing
        PROVE  q = m /\ \E j \in 1 .. i - 1 : queue'[e][j].op = "signup"
    <3>1. q = m /\ \E j \in 1 .. i - 1 : queue[e][j].op = "signup"
      BY <2>1, <2>2, <2>4 DEF GoodMember, PhoneStep
    <3>2. \A j \in 1 .. i - 1 : j \in 1 .. Len(queue[e])
      BY <1>4, PhoneTypes
    <3> QED
      BY <3>1, <3>2, PhoneTypes
  <2>5. ASSUME w.op \in {"list", "unlist"}, NEW j \in 1 .. Len(queue'[m]), Creates(m, j, w.team)'
        PROVE  j < i
    <3>1. Born(m, i, w.team) /\ \A x \in 1 .. Len(queue[m]) : Creates(m, x, w.team) => x < i
      BY <2>1, <2>2, <2>5 DEF GoodMember
    <3>2. CASE j \in 1 .. Len(queue[m])
      <4>1. queue'[m][j] = queue[m][j]
        BY <1>1, <3>2, PhoneTypes
      <4> QED
        BY <2>5, <3>1, <3>2, <4>1 DEF Creates
    <3>3. CASE ~(j \in 1 .. Len(queue[m]))
      <4>1. m = p /\ New(p, j)
        BY <1>1, <3>3, PhoneTypes
      <4>2. Fresh(w.team)
        BY <2>5, <4>1 DEF NewWrites, Creates
      <4>3. \A x \in 1 .. i - 1 : x \in 1 .. Len(queue[m])
        BY <1>4, <2>2, PhoneTypes
      <4> QED
        BY <1>1, <3>1, <4>2, <4>3 DEF Fresh, Born, NoDoc
    <3> QED
      BY <3>2, <3>3
  <2>6. /\ w.op = "put" => w.team = NoTeam \/ Born(m, i, w.team)
        /\ w.op \in {"list", "unlist"} => Born(m, i, w.team)
    BY <2>1, <2>2 DEF GoodMember
  <2> QED
    BY <2>2, <2>3, <2>4, <2>5, <2>6
<1> QED
  BY <1>3, <1>4

LEMMA PhonePlaced ==
  ASSUME Inv, Inv', NEW p \in Players, PhoneStep(p), NewWrites(p),
         NEW m \in Players, NEW q \in Players, Placed(m, q)
  PROVE  Placed(m, q)'
<1>1. UNCHANGED <<teamOf, team>>
  BY DEF PhoneStep
<1>2. ASSUME NEW t \in Teams, q \in team[t].members, NEW i \in 1 .. Len(queue'[m]), Creates(m, i, t)'
      PROVE  Lists(m, t, q)' # {}
  <2>1. i \in 1 .. Len(queue[m])
    <3>1. SUFFICES ASSUME ~(i \in 1 .. Len(queue[m])) PROVE FALSE
      OBVIOUS
    <3>2. m = p /\ New(p, i)
      BY <3>1, PhoneTypes
    <3>3. team[t] = NoDoc
      BY <1>2, <3>2 DEF NewWrites, Creates, Fresh
    <3> QED
      BY <1>2, <3>3 DEF NoDoc
  <2>2. Creates(m, i, t)
    BY <1>2, <2>1, PhoneTypes DEF Creates
  <2>3. Lists(m, t, q) # {}
    BY <1>2, <2>1, <2>2 DEF Placed
  <2> QED
    BY <2>3, PhonePlaces DEF Lists
<1>3. ASSUME NEW t \in Teams, q \in team[t].members, \E i \in 1 .. Len(queue'[m]) : Creates(m, i, t)'
      PROVE  Lists(m, t, q)' # {}
  BY <1>2, <1>3
<1>4. /\ teamOf'[q] \in Teams => team'[teamOf'[q]].manager = m
      /\ \A t \in Teams : q \in team'[t].members => team'[t].manager = m
  BY <1>1 DEF Placed
<1>5. \A t \in Teams : q \in team'[t].members =>
        ((\E i \in 1 .. Len(queue'[m]) : Creates(m, i, t)') => Lists(m, t, q)' # {})
  BY <1>1, <1>3
<1> QED
  BY <1>4, <1>5 DEF Placed, Creates

LEMMA PhoneTold ==
  ASSUME Inv, Inv', NEW p \in Players, PhoneStep(p),
         NEW m \in Players, NEW q \in Players, ServerTold(m, q)
  PROVE  ServerTold(m, q)'
<1>1. /\ Len(queue[m]) \in Nat /\ sent[m] \in Nat /\ sent[m] <= Len(queue[m])
      /\ UNCHANGED <<sent, teamOf, team>>
  BY PhoneTypes DEF PhoneStep
<1>2. ASSUME NEW S, S \subseteq 1 .. Len(queue[m]), NEW S2, S2 \subseteq Nat,
             \A i \in Nat : i <= Len(queue[m]) => (i \in S2 <=> i \in S),
             NEW v, NEW v2, \A i \in 1 .. Len(queue[m]) : v2[i] = v[i],
             NEW x, Told(S, v, sent[m], x)
      PROVE  Told(S2, v2, sent[m], x)
  <2>1. SUFFICES ASSUME NEW i \in S2, i <= sent[m], \A j \in S2 : j <= sent[m] => j <= i
                 PROVE  x = v2[i]
    BY DEF Told
  <2>2. i \in S /\ v2[i] = v[i]
    BY <1>1, <1>2, <2>1
  <2>3. ASSUME NEW j \in S, j <= sent[m] PROVE j <= i
    <3>1. j \in S2
      BY <1>1, <1>2
    <3> QED
      BY <2>1, <2>3, <3>1
  <2> QED
    BY <1>2, <2>1, <2>2, <2>3 DEF Told
<1>3. Told(Puts(m, q)', TeamsIn(m)', sent[m], teamOf[q])
  <2>1. Puts(m, q) \subseteq 1 .. Len(queue[m])
    BY PendingPlaces DEF Puts, Inv
  <2>2. /\ Puts(m, q)' \subseteq Nat
        /\ \A i \in Nat : i <= Len(queue[m]) => (i \in Puts(m, q)' <=> i \in Puts(m, q))
        /\ \A i \in 1 .. Len(queue[m]) : TeamsIn(m)'[i] = TeamsIn(m)[i]
    BY PhonePlaces DEF Puts
  <2>3. Told(Puts(m, q), TeamsIn(m), sent[m], teamOf[q])
    BY DEF ServerTold
  <2> QED
    BY <1>2, <2>1, <2>2, <2>3
<1>4. ASSUME NEW t \in Teams
      PROVE  Told(Lists(m, t, q)', Stays(m)', sent[m], q \in team[t].members)
  <2>1. Lists(m, t, q) \subseteq 1 .. Len(queue[m])
    BY PendingPlaces DEF Lists, Inv
  <2>2. /\ Lists(m, t, q)' \subseteq Nat
        /\ \A i \in Nat : i <= Len(queue[m]) => (i \in Lists(m, t, q)' <=> i \in Lists(m, t, q))
        /\ \A i \in 1 .. Len(queue[m]) : Stays(m)'[i] = Stays(m)[i]
    BY PhonePlaces DEF Lists
  <2>3. PICK x : x = (q \in team[t].members)
    OBVIOUS
  <2>4. Told(Lists(m, t, q), Stays(m), sent[m], x)
    BY <2>3 DEF ServerTold
  <2>5. Told(Lists(m, t, q)', Stays(m)', sent[m], x)
    BY <1>2, <2>1, <2>2, <2>4
  <2> QED
    BY <2>3, <2>5
<1> QED
  BY <1>1, <1>3, <1>4 DEF ServerTold

LEMMA PhoneSeen ==
  ASSUME Inv, Inv', NEW p \in Players, PhoneStep(p), NEW e \in Players, NEW q \in Players
  PROVE  /\ (e # p \/ \A i : New(p, i) => i \notin Puts(p, q)') => SeenTeam(e, q)' = SeenTeam(e, q)
         /\ \A t \in Teams :
              (e # p \/ \A i : New(p, i) => i \notin Lists(p, t, q)') =>
                SeenMember(e, t, q)' = SeenMember(e, t, q)
<1>1. /\ Len(queue[e]) \in Nat /\ UNCHANGED <<teamOf, team>>
      /\ \A i \in 1 .. Len(queue[e]) : queue'[e][i] = queue[e][i]
      /\ e # p => queue'[e] = queue[e]
  BY PhoneTypes DEF PhoneStep
<1>2. ASSUME NEW S, S \subseteq 1 .. Len(queue[e]), S # {}
      PROVE  Latest(e, S)' = Latest(e, S)
  <2>1. PICK i : i = CHOOSE a \in S : \A j \in S : j <= a
    OBVIOUS
  <2>2. i \in S
    BY <1>1, <1>2, <2>1, LastPlace
  <2> QED
    BY <1>1, <1>2, <2>1, <2>2 DEF Latest
<1>3. ASSUME e # p \/ \A i : New(p, i) => i \notin Puts(p, q)'
      PROVE  SeenTeam(e, q)' = SeenTeam(e, q)
  <2>1. Puts(e, q)' = Puts(e, q)
    <3>1. CASE e = p
      BY <1>3, <3>1, PhonePlaces DEF Puts
    <3>2. CASE e # p
      BY <1>1, <3>2 DEF Puts, Pending
    <3> QED
      BY <3>1, <3>2
  <2>2. PICK S : S = Puts(e, q) /\ S = Puts(e, q)' /\ S \subseteq 1 .. Len(queue[e])
    BY <2>1, PendingPlaces DEF Inv, Puts
  <2>3. SeenTeam(e, q) = IF S = {} THEN teamOf[q] ELSE Latest(e, S).team
    BY <2>2 DEF SeenTeam, Puts
  <2>4. SeenTeam(e, q)' = IF S = {} THEN teamOf[q] ELSE Latest(e, S)'.team
    <3>1. CASE S = {}
      BY <1>1, <2>2, <3>1 DEF SeenTeam, Puts
    <3>2. CASE S # {}
      <4>1. SeenTeam(e, q)' = Latest(e, Puts(e, q))'.team
        BY <2>2, <3>2, Zenon DEF SeenTeam, Puts
      <4>2. Latest(e, Puts(e, q))' = Latest(e, S)'
        BY <2>2 DEF Latest
      <4> QED
        BY <3>2, <4>1, <4>2
    <3> QED
      BY <3>1, <3>2
  <2> QED
    BY <1>1, <1>2, <2>2, <2>3, <2>4
<1>4. ASSUME NEW t \in Teams, e # p \/ \A i : New(p, i) => i \notin Lists(p, t, q)'
      PROVE  SeenMember(e, t, q)' = SeenMember(e, t, q)
  <2>1. Lists(e, t, q)' = Lists(e, t, q)
    <3>1. CASE e = p
      BY <1>4, <3>1, PhonePlaces DEF Lists
    <3>2. CASE e # p
      BY <1>1, <3>2 DEF Lists, Pending
    <3> QED
      BY <3>1, <3>2
  <2>2. PICK S : S = Lists(e, t, q) /\ S = Lists(e, t, q)' /\ S \subseteq 1 .. Len(queue[e])
    BY <2>1, PendingPlaces DEF Inv, Lists
  <2>3. SeenMember(e, t, q) = IF S = {} THEN q \in team[t].members ELSE Latest(e, S).op # "unlist"
    BY <2>2, Zenon DEF SeenMember, Lists
  <2>4. SeenMember(e, t, q)' = IF S = {} THEN q \in team'[t].members ELSE Latest(e, S)'.op # "unlist"
    BY <2>2, Zenon DEF SeenMember, Lists, Latest
  <2>5. CASE S = {}
    <3>1. SeenMember(e, t, q) = (q \in team[t].members)
      BY <2>3, <2>5, Zenon
    <3>2. SeenMember(e, t, q)' = (q \in team'[t].members)
      BY <2>4, <2>5, Zenon
    <3>3. (q \in team'[t].members) = (q \in team[t].members)
      BY <1>1
    <3> QED
      BY <3>1, <3>2, <3>3, Zenon
  <2>6. CASE S # {}
    <3>1. SeenMember(e, t, q) = (Latest(e, S).op # "unlist")
      BY <2>3, <2>6, Zenon
    <3>2. SeenMember(e, t, q)' = (Latest(e, S)'.op # "unlist")
      BY <2>4, <2>6, Zenon
    <3>3. Latest(e, S)' = Latest(e, S)
      BY <1>2, <2>2, <2>6
    <3> QED
      BY <3>1, <3>2, <3>3, Zenon
  <2> QED
    BY <2>5, <2>6
<1> QED
  BY <1>3, <1>4

(* What the last new write about q says is what p sees. *)
LEMMA PhoneSeenLast ==
  ASSUME Inv, Inv', NEW p \in Players, PhoneStep(p), NEW q \in Players
  PROVE  /\ \A i \in Puts(p, q)' :
              (\A j \in Puts(p, q)' : j <= i) => SeenTeam(p, q)' = queue'[p][i].team
         /\ \A t \in Teams : \A i \in Lists(p, t, q)' :
              (\A j \in Lists(p, t, q)' : j <= i) => (SeenMember(p, t, q)' <=> queue'[p][i].op # "unlist")
<1>1. TypeOK' /\ Len(queue'[p]) \in Nat /\ DOMAIN queue'[p] = 1 .. Len(queue'[p])
  BY PhoneTypes DEF Inv
<1>2. ASSUME NEW i \in Puts(p, q)', \A j \in Puts(p, q)' : j <= i
      PROVE  SeenTeam(p, q)' = queue'[p][i].team
  <2>1. i \in 1 .. Len(queue'[p]) /\ Puts(p, q)' \subseteq Nat
    BY <1>1 DEF Puts, Pending
  <2>2. TeamsIn(p)'[i] = queue'[p][i].team
    BY <2>1 DEF TeamsIn
  <2>3. IsSeen(Puts(p, q)', TeamsIn(p)', teamOf'[q], queue'[p][i].team)
    BY <1>2, <2>2 DEF IsSeen
  <2>4. IsSeen(Puts(p, q)', TeamsIn(p)', teamOf'[q], SeenTeam(p, q)')
    BY <1>1, SeenTeamIsNext
  <2> QED
    BY <2>1, <2>3, <2>4, SeenOnce
<1>3. ASSUME NEW t \in Teams, NEW i \in Lists(p, t, q)', \A j \in Lists(p, t, q)' : j <= i
      PROVE  SeenMember(p, t, q)' <=> queue'[p][i].op # "unlist"
  <2>1. i \in 1 .. Len(queue'[p]) /\ Lists(p, t, q)' \subseteq Nat
    BY <1>1 DEF Lists, Pending
  <2>2. PICK x : x = (queue'[p][i].op # "unlist") /\ Stays(p)'[i] = x
    BY <2>1 DEF Stays
  <2>3. PICK z : z = (q \in team'[t].members)
    OBVIOUS
  <2>4. IsSeen(Lists(p, t, q)', Stays(p)', z, x)
    BY <1>3, <2>2 DEF IsSeen
  <2>5. IsSeen(Lists(p, t, q)', Stays(p)', z, SeenMember(p, t, q)')
    BY <1>1, <2>3, SeenMemberIsNext
  <2>6. SeenMember(p, t, q)' = x
    BY <2>1, <2>4, <2>5, SeenOnce
  <2> QED
    BY <2>2, <2>6, Zenon
<1> QED
  BY <1>2, <1>3

LEMMA PhoneNamed ==
  ASSUME Inv, Inv', NEW p \in Players, PhoneStep(p), NEW m \in Players, NEW t,
         m # p \/ \A i : New(p, i) => ~Creates(p, i, t)', Named(m, t)
  PROVE  Named(m, t)'
<1>1. UNCHANGED <<sent, team>>
  BY DEF PhoneStep
<1>2. ASSUME NEW i \in 1 .. Len(queue'[m]), Creates(m, i, t)'
      PROVE  i \in 1 .. Len(queue[m]) /\ Creates(m, i, t)
  <2>1. i \in 1 .. Len(queue[m])
    BY <1>2, PhoneTypes
  <2> QED
    BY <1>2, <2>1, PhoneTypes DEF Creates
<1>3. CASE team[t].named /\ \A i \in 1 .. Len(queue[m]) : ~Creates(m, i, t)
  BY <1>1, <1>2, <1>3 DEF Named, Creates
<1>4. ASSUME NEW j \in 1 .. Len(queue[m]),
             queue[m][j].op = "name", queue[m][j].player = m, queue[m][j].team = t,
             \A i \in 1 .. Len(queue[m]) : Creates(m, i, t) => i < j,
             j <= sent[m] => team[t].named
      PROVE  Named(m, t)'
  <2>1. j \in 1 .. Len(queue'[m]) /\ queue'[m][j] = queue[m][j]
    BY PhoneTypes
  <2>2. \A i \in 1 .. Len(queue'[m]) : Creates(m, i, t)' => i < j
    BY <1>2, <1>4
  <2> QED
    BY <1>1, <1>4, <2>1, <2>2 DEF Named, Creates
<1> QED
  BY <1>3, <1>4 DEF Named

(* A team m sees q in is m's own. *)
LEMMA SeenTeamFounds ==
  ASSUME Inv, RosterInv, NEW m \in Uninvited, NEW q \in Sole[m], SeenTeam(m, q) \in Teams
  PROVE  Founds(m, SeenTeam(m, q))
<1>1. /\ m \in Players /\ q \in Players /\ OnlyBy(m, q) /\ Placed(m, q) /\ SignUps
      /\ NoTeam \notin Teams
  BY SoleFacts, TeamsAssumption DEF RosterInv, Roster
<1>2. /\ Len(queue[m]) \in Nat /\ DOMAIN queue[m] = 1 .. Len(queue[m])
  BY <1>1, QueueTypes DEF Inv
<1>3. IsSeen(Puts(m, q), TeamsIn(m), teamOf[q], SeenTeam(m, q))
  BY <1>1, SeenTeamIs DEF Inv
<1>4. CASE Puts(m, q) = {}
  BY <1>1, <1>3, <1>4 DEF IsSeen, Placed, Founds, Born
<1>5. CASE Puts(m, q) # {}
  <2>1. PICK i \in Puts(m, q) : SeenTeam(m, q) = TeamsIn(m)[i]
    BY <1>3, <1>5 DEF IsSeen
  <2>2. /\ i \in 1 .. Len(queue[m]) /\ queue[m][i].op \in {"signup", "put"}
        /\ queue[m][i].player = q /\ queue[m][i].team = SeenTeam(m, q)
    BY <1>2, <2>1 DEF Puts, Pending, TeamsIn
  <2>3. queue[m][i].op = "put"
    BY <1>1, <2>2 DEF SignUps
  <2>4. Born(m, i, SeenTeam(m, q))
    BY <1>1, <2>2, <2>3 DEF OnlyBy, GoodMember, MemberOps
  <2>5. \A j \in 1 .. i - 1 : j \in 1 .. (Len(queue[m]) + 1) - 1
    BY <1>2, <2>2
  <2> QED
    BY <2>4, <2>5 DEF Founds, Born
<1> QED
  BY <1>4, <1>5

LEMMA PhoneRoster ==
  ASSUME Inv, Inv', RosterInv, NEW p \in Players, PhoneStep(p), NewWrites(p), NewCalls(p),
         p \in Uninvited => Keeps(p)' /\ \A q \in Sole[p] : Agree(p, q)'
  PROVE  RosterInv'
<1>1. OneFounder' /\ SignUps' /\ UNCHANGED <<teamOf, team>>
  BY PhoneOneFounder, PhoneSignUps DEF RosterInv, PhoneStep
<1>2. Invited'
  BY DEF RosterInv, Invited, NewCalls
<1>3. ASSUME NEW m \in Uninvited, NEW q \in Sole[m] PROVE Roster(m, q)'
  <2>1. m \in Players /\ q \in Players
    BY SoleFacts
  <2>2. OnlyBy(m, q) /\ Placed(m, q) /\ Removals(m, q) /\ ServerTold(m, q) /\ Agree(m, q)
    BY DEF RosterInv, Roster
  <2>3. OnlyBy(m, q)' /\ Placed(m, q)' /\ ServerTold(m, q)'
    BY <2>1, <2>2, PhoneOnlyBy, PhonePlaced, PhoneTold
  <2>4. Removals(m, q)'
    <3>1. SUFFICES ASSUME NEW c \in calls', c.kind = "remove", c.player = q, c.phone # m
                   PROVE  c.team \in Teams /\ team[c.team].manager = m
      BY <1>1 DEF Removals
    <3> QED
      BY <2>2, <3>1 DEF Removals, NewCalls
  <2>5. Agree(m, q)'
    <3>1. CASE m = p
      BY <3>1 DEF Agree
    <3>2. CASE m # p
      <4>1. /\ SeenTeam(m, q)' = SeenTeam(m, q)
            /\ \A t \in Teams : SeenMember(m, t, q)' = SeenMember(m, t, q)
        BY <2>1, <3>2, PhoneSeen
      <4> QED
        BY <2>2, <4>1 DEF Agree
    <3> QED
      BY <3>1, <3>2
  <2> QED
    BY <2>3, <2>4, <2>5 DEF Roster
<1>4. ASSUME NEW m \in Uninvited, m # p PROVE Keeps(m)'
  <2>1. m \in Players /\ Keeps(m)
    BY SoleFacts, SoleSelf DEF RosterInv
  <2>2. \A t : Founds(m, t) <=> Founds(m, t)'
    BY <1>4, <2>1, PhoneBorn
  <2>3. SeenTeam(m, m)' = SeenTeam(m, m)
    BY <1>4, <2>1, PhoneSeen
  <2>4. \A t : Named(m, t) => Named(m, t)'
    BY <1>4, <2>1, PhoneNamed
  <2>5. ud'[m] = ud[m] /\ screen'[m] = screen[m] /\ \A c \in calls' : c.phone = m => c \in calls
    BY <1>4, <2>1 DEF PhoneStep, NewCalls
  <2>6. ASSUME NEW t \in Teams, Founds(m, t)'
        PROVE  /\ ud'[m] = t /\ screen'[m] \in {"home", "team"}
               /\ SeenTeam(m, m)' = t /\ Named(m, t)'
    BY <2>1, <2>2, <2>3, <2>4, <2>5, <2>6 DEF Keeps
  <2>7. ud'[m] \in Teams => Founds(m, ud[m])'
    BY <2>1, <2>2, <2>5 DEF Keeps, Founds, Born, Creates
  <2>8. \A c \in calls' : c.phone = m /\ c.kind \in {"add", "query", "remove"} => Founds(m, c.team)'
    BY <2>1, <2>2, <2>5 DEF Keeps
  <2> QED
    BY <2>6, <2>7, <2>8 DEF Keeps
<1>5. \A m \in Uninvited : Keeps(m)'
  BY <1>4 DEF Keeps
<1> QED
  BY <1>1, <1>2, <1>3, <1>5 DEF RosterInv

(* The steps that write nothing. *)
LEMMA QuietRoster ==
  ASSUME Inv, Inv', RosterInv, NEW p \in Players, UNCHANGED <<queue, sent, teamOf, team>>,
         \A e \in Players : e # p => ud'[e] = ud[e] /\ screen'[e] = screen[e],
         screen'[p] = "new" <=> screen[p] = "new",
         NewCalls(p),
         p \in Uninvited =>
           /\ \A t \in Teams : Founds(p, t) => ud'[p] = t /\ screen'[p] \in {"home", "team"}
           /\ \A t \in Teams : ud'[p] = t => Founds(p, t)
           /\ \A c \in calls' : c \notin calls /\ c.kind \in {"add", "query", "remove"} =>
                Founds(p, c.team)
  PROVE  RosterInv'
<1>1. \A i : ~New(p, i)
  <2>1. SUFFICES ASSUME NEW i, New(p, i) PROVE FALSE
    OBVIOUS
  <2>2. i \in 1 .. Len(queue[p]) /\ i > Len(queue[p]) /\ Len(queue[p]) \in Nat
    BY <2>1, QueueTypes DEF New, Inv
  <2> QED
    BY <2>2
<1>2. PhoneStep(p)
  BY QueueTypes DEF PhoneStep, Inv
<1>3. NewWrites(p)
  BY <1>1 DEF NewWrites
<1>4. ASSUME p \in Uninvited PROVE Keeps(p)'
  <2>1. Keeps(p)
    BY <1>4 DEF RosterInv
  <2>2. \A t : Founds(p, t) <=> Founds(p, t)'
    BY DEF Founds, Born, Creates
  <2>3. SeenTeam(p, p)' = SeenTeam(p, p)
    BY <1>1, <1>2, PhoneSeen
  <2>4. \A t : Named(p, t) => Named(p, t)'
    BY <1>1, <1>2, PhoneNamed
  <2>5. ASSUME NEW t \in Teams, Founds(p, t)'
        PROVE  /\ ud'[p] = t /\ screen'[p] \in {"home", "team"}
               /\ SeenTeam(p, p)' = t /\ Named(p, t)'
    BY <1>4, <2>1, <2>2, <2>3, <2>4, <2>5 DEF Keeps
  <2>6. ASSUME NEW t \in Teams, ud'[p] = t PROVE Founds(p, t)'
    BY <1>4, <2>2, <2>6
  <2>7. ud'[p] \in Teams => Founds(p, ud[p])'
    BY <2>6 DEF Founds, Born, Creates
  <2>8. ASSUME NEW c \in calls', c.phone = p, c.kind \in {"add", "query", "remove"}
        PROVE  Founds(p, c.team)'
    <3>1. CASE c \in calls
      BY <2>1, <2>2, <2>8, <3>1 DEF Keeps
    <3>2. CASE c \notin calls
      BY <1>4, <2>2, <2>8, <3>2
    <3> QED
      BY <3>1, <3>2
  <2> QED
    BY <2>5, <2>7, <2>8 DEF Keeps
<1>5. ASSUME p \in Uninvited, NEW q \in Sole[p] PROVE Agree(p, q)'
  <2>1. q \in Players /\ Agree(p, q)
    BY <1>5, SoleFacts DEF RosterInv, Roster
  <2>2. /\ SeenTeam(p, q)' = SeenTeam(p, q)
        /\ \A t \in Teams : SeenMember(p, t, q)' = SeenMember(p, t, q)
    BY <1>1, <1>2, <2>1, PhoneSeen
  <2> QED
    BY <2>1, <2>2 DEF Agree
<1>6. \A q : p \in Uninvited /\ q \in Sole[p] => Agree(p, q)'
  BY <1>5
<1> QED
  BY <1>2, <1>3, <1>4, <1>6, PhoneRoster

LEMMA PendFields ==
  ASSUME NEW p, NEW kind, NEW t, NEW q
  PROVE  /\ Pend(p, kind, t, q).phone = p /\ Pend(p, kind, t, q).kind = kind
         /\ Pend(p, kind, t, q).team = t /\ Pend(p, kind, t, q).player = q
  BY DEF Pend

(* What holds of the phone of a manager nobody can add. *)
LEMMA KeepsFacts ==
  ASSUME Inv, RosterInv, NEW p \in Uninvited
  PROVE  /\ NoTeam \notin Teams /\ p \in Players /\ p \in Sole[p]
         /\ \A t \in Teams :
              Founds(p, t) => /\ ud[p] = t /\ screen[p] \in {"home", "team"}
                              /\ SeenTeam(p, p) = t /\ Named(p, t)
         /\ \A t \in Teams : ud[p] = t => Founds(p, t)
         /\ \A c \in OnPhone(p, {"add", "query", "remove"}) :
              c.team \in Teams /\ Founds(p, c.team) /\ ud[p] = c.team
<1>1. Keeps(p) /\ NoTeam \notin Teams /\ p \in Players /\ p \in Sole[p]
  BY SoleFacts, SoleSelf, TeamsAssumption DEF RosterInv
<1>2. ASSUME NEW c \in OnPhone(p, {"add", "query", "remove"})
      PROVE  c.team \in Teams /\ Founds(p, c.team)
  BY <1>1 DEF Keeps, OnPhone, Founds, Born
<1> QED
  BY <1>1, <1>2 DEF Keeps

LEMMA RestartRoster ==
  ASSUME Inv, Inv', RosterInv, NEW p \in Players, Restart(p), screen[p] # "new",
         UNCHANGED <<queue, sent, teamOf, team, ud>>
  PROVE  RosterInv'
<1>1. /\ calls' \subseteq calls \cup {Pend(p, "store", NoTeam, p)}
      /\ screen' = [screen EXCEPT ![p] = "home"]
  BY DEF Restart
<1>2. screen'[p] = "home" /\ \A e \in Players : e # p => screen'[e] = screen[e]
  BY <1>1 DEF Inv, TypeOK
<1>3. \A c \in calls' : c \notin calls => c.phone = p /\ c.kind = "store"
  BY <1>1, PendFields
<1>4. NewCalls(p)
  BY <1>2, <1>3 DEF NewCalls
<1>5. ASSUME p \in Uninvited
      PROVE  /\ \A t \in Teams : Founds(p, t) => ud'[p] = t /\ screen'[p] \in {"home", "team"}
             /\ \A t \in Teams : ud'[p] = t => Founds(p, t)
             /\ \A c \in calls' : c \notin calls /\ c.kind \in {"add", "query", "remove"} =>
                  Founds(p, c.team)
  BY <1>2, <1>3, <1>5, KeepsFacts
<1> QED
  BY <1>2, <1>4, <1>5, QuietRoster

(* A callback that ends in nothing. *)
LEMMA EndRoster ==
  ASSUME Inv, Inv', RosterInv, NEW p \in Players, calls' \subseteq calls,
         UNCHANGED <<queue, sent, teamOf, team, ud, screen>>
  PROVE  RosterInv'
<1>1. NewCalls(p) /\ \A c \in calls' : c \in calls
  BY DEF NewCalls
<1>2. ASSUME p \in Uninvited
      PROVE  /\ \A t \in Teams : Founds(p, t) => ud'[p] = t /\ screen'[p] \in {"home", "team"}
             /\ \A t \in Teams : ud'[p] = t => Founds(p, t)
  BY <1>2, KeepsFacts
<1> QED
  BY <1>1, <1>2, QuietRoster

(* A call p's user makes of the stored team, or a look for its page. *)
LEMMA AskRoster ==
  ASSUME Inv, Inv', RosterInv, NEW p \in Players, NEW kind \in {"show", "add", "remove"}, NEW q \in Players,
         calls' = calls \cup {Pend(p, kind, ud[p], q)}, ud[p] # NoTeam, screen[p] # "new",
         kind = "add" => q \in Invites[p],
         kind = "remove" => SeenTeam(p, q) = ud[p],
         UNCHANGED <<queue, sent, teamOf, team, ud, screen>>
  PROVE  RosterInv'
<1>1. \A c \in calls' : c \notin calls =>
        c.phone = p /\ c.kind = kind /\ c.team = ud[p] /\ c.player = q
  BY PendFields
<1>2. ud[p] \in Teams
  BY DEF Inv, TypeOK, TeamIDs
<1>3. ASSUME kind = "remove", NEW m \in Uninvited, m # p, q \in Sole[m]
      PROVE  team[ud[p]].manager = m
  <2>1. OnlyBy(m, q) /\ Placed(m, q)
    BY <1>3 DEF RosterInv, Roster
  <2>2. Puts(p, q) = {}
    <3>1. SUFFICES ASSUME NEW i \in Puts(p, q) PROVE FALSE
      OBVIOUS
    <3>2. /\ i \in 1 .. Len(queue[p]) /\ queue[p][i].player = q
          /\ queue[p][i].op \in {"signup", "put"}
      BY <3>1, QueueTypes DEF Puts, Pending, Inv
    <3>3. GoodMember(m, q, p, i)
      BY <2>1, <3>2 DEF OnlyBy
    <3> QED
      BY <1>3, <3>2, <3>3 DEF GoodMember, MemberOps
  <2>3. teamOf[q] = ud[p]
    BY <1>3, <2>2 DEF SeenTeam, Puts
  <2> QED
    BY <1>2, <2>1, <2>3 DEF Placed
<1>4. NewCalls(p)
  BY <1>1, <1>2, <1>3 DEF NewCalls
<1>5. ASSUME p \in Uninvited
      PROVE  /\ \A t \in Teams : Founds(p, t) => ud'[p] = t /\ screen'[p] \in {"home", "team"}
             /\ \A t \in Teams : ud'[p] = t => Founds(p, t)
             /\ \A c \in calls' : c \notin calls /\ c.kind \in {"add", "query", "remove"} =>
                  Founds(p, c.team)
  BY <1>1, <1>2, <1>5, KeepsFacts
<1> QED
  BY <1>4, <1>5, QuietRoster

LEMMA StoreRoster ==
  ASSUME Inv, Inv', RosterInv, NEW p \in Players, StoreTeam(p) \/ HearRemoved(p)
  PROVE  RosterInv'
<1>1. /\ calls' \subseteq calls /\ UNCHANGED <<queue, sent, teamOf, team>>
      /\ \A e \in Players : e # p => ud'[e] = ud[e] /\ screen'[e] = screen[e]
      /\ screen'[p] = "new" <=> screen[p] = "new"
  BY DEF StoreTeam, HearRemoved, Inv, TypeOK
<1>2. NewCalls(p) /\ \A c \in calls' : c \in calls
  BY <1>1 DEF NewCalls
<1>3. ASSUME p \in Uninvited, NEW t \in Teams
      PROVE  /\ Founds(p, t) => ud'[p] = t /\ screen'[p] \in {"home", "team"}
             /\ ud'[p] = t => Founds(p, t)
  <2>1. /\ NoTeam \notin Teams /\ p \in Sole[p]
        /\ Founds(p, t) => ud[p] = t /\ screen[p] \in {"home", "team"} /\ SeenTeam(p, p) = t
        /\ ud[p] = t => Founds(p, t)
    BY <1>3, KeepsFacts
  <2>2. Missing \notin Teams /\ (SeenTeam(p, p) = t => Founds(p, t))
    BY <1>3, <2>1, SeenTeamFounds, TeamsAssumption
  <2>3. CASE StoreTeam(p)
    <3>1. ud'[p] = (IF SeenTeam(p, p) = Missing THEN ud[p] ELSE SeenTeam(p, p)) /\ screen' = screen
      BY <2>3 DEF StoreTeam, Inv, TypeOK
    <3> QED
      BY <2>1, <2>2, <3>1
  <2>4. CASE HearRemoved(p)
    <3>1. ud'[p] = NoTeam /\ SeenTeam(p, p) = NoTeam
      BY <2>4 DEF HearRemoved, Inv, TypeOK
    <3> QED
      BY <2>1, <3>1
  <2> QED
    BY <2>3, <2>4
<1> QED
  BY <1>1, <1>2, <1>3, QuietRoster

LEMMA TabRoster ==
  ASSUME Inv, Inv', RosterInv, NEW p \in Players, OpenTab(p) \/ HearInvited(p) \/ ShowTeam(p)
  PROVE  RosterInv'
<1>0. /\ ud \in [Players -> TeamIDs] /\ screen \in [Players -> Screens]
      /\ \A c \in calls : screen[c.phone] # "new"
  BY DEF Inv, TypeOK, RosterInv, SignUps
<1>1. CASE OpenTab(p) /\ ud[p] = NoTeam
  <2>1. /\ screen' = [screen EXCEPT ![p] = "none"] /\ screen[p] = "home"
        /\ UNCHANGED <<calls, sent, teamOf, team, queue, ud>>
    BY <1>1 DEF OpenTab
  <2>2. NewCalls(p)
    BY <2>1 DEF NewCalls
  <2>3. ASSUME p \in Uninvited
        PROVE  /\ \A t \in Teams : Founds(p, t) => ud'[p] = t /\ screen'[p] \in {"home", "team"}
               /\ \A t \in Teams : ud'[p] = t => Founds(p, t)
    BY <1>1, <2>1, <2>3, KeepsFacts
  <2> QED
    BY <1>0, <2>1, <2>2, <2>3, QuietRoster
<1>2. CASE OpenTab(p) /\ ud[p] # NoTeam
  <2>1. /\ calls' = calls \cup {Pend(p, "show", ud[p], p)} /\ screen[p] # "new"
        /\ UNCHANGED <<queue, sent, teamOf, team, ud, screen>>
    BY <1>2 DEF OpenTab
  <2> QED
    BY <1>2, <2>1, AskRoster
<1>3. CASE HearInvited(p)
  <2>1. /\ screen[p] = "none" /\ SeenTeam(p, p) \in Teams
        /\ ud' = [ud EXCEPT ![p] = SeenTeam(p, p)]
        /\ calls' = calls \cup {Pend(p, "show", SeenTeam(p, p), p)}
        /\ UNCHANGED <<sent, teamOf, team, queue, screen>>
    BY <1>3 DEF HearInvited
  <2>2. p \notin Uninvited
    <3>1. SUFFICES ASSUME p \in Uninvited PROVE FALSE
      OBVIOUS
    <3>2. Founds(p, SeenTeam(p, p))
      BY <2>1, <3>1, KeepsFacts, SeenTeamFounds
    <3> QED
      BY <2>1, <3>1, <3>2, KeepsFacts
  <2>3. NewCalls(p)
    BY <2>1, PendFields DEF NewCalls
  <2> QED
    BY <1>0, <2>1, <2>2, <2>3, QuietRoster
<1>4. CASE ShowTeam(p)
  <2>1. PICK c \in OnPhone(p, {"show"}) :
          /\ screen' = [screen EXCEPT ![p] = "team"] /\ calls' = calls \ {c}
          /\ UNCHANGED <<sent, teamOf, team, queue, ud>>
    BY <1>4 DEF ShowTeam
  <2>2. screen[p] # "new"
    BY <1>0, <2>1 DEF OnPhone
  <2>3. NewCalls(p) /\ \A e \in calls' : e \in calls
    BY <2>1 DEF NewCalls
  <2>4. ASSUME p \in Uninvited
        PROVE  /\ \A t \in Teams : Founds(p, t) => ud'[p] = t /\ screen'[p] \in {"home", "team"}
               /\ \A t \in Teams : ud'[p] = t => Founds(p, t)
    BY <1>0, <2>1, <2>4, KeepsFacts
  <2> QED
    BY <1>0, <2>1, <2>2, <2>3, <2>4, QuietRoster
<1> QED
  BY <1>1, <1>2, <1>3, <1>4

(* The team's name is seen, so the query is for the team that was read. *)
LEMMA AllowedRoster ==
  ASSUME Inv, Inv', RosterInv, NEW p \in Players, AddAllowed(p)
  PROVE  RosterInv'
<1>1. PICK c \in OnPhone(p, {"add"}) :
        /\ calls' = (calls \ {c}) \cup
             IF SeenManager(p, c.team) # p THEN {}
             ELSE {Pend(p, "query", IF SeenNamed(p, c.team) THEN c.team ELSE NoTeam, c.player)}
        /\ UNCHANGED <<sent, teamOf, team, queue, ud, screen>>
  BY DEF AddAllowed
<1>2. PICK t : t = IF SeenNamed(p, c.team) THEN c.team ELSE NoTeam
  OBVIOUS
<1>3. calls' \subseteq calls \cup {Pend(p, "query", t, c.player)}
  BY <1>1, <1>2
<1>4. \A e \in calls' : e \notin calls => e.phone = p /\ e.kind = "query" /\ e.team = t /\ e.player = c.player
  BY <1>3, PendFields
<1>5. c \in calls /\ c.phone = p /\ c.kind = "add"
  BY DEF OnPhone
<1>6. screen[p] # "new" /\ c.player \in Invites[p]
  BY <1>5 DEF RosterInv, SignUps, Invited
<1>7. NewCalls(p)
  BY <1>1, <1>4, <1>6 DEF NewCalls
<1>8. ASSUME p \in Uninvited PROVE Founds(p, t)
  <2>1. c.team \in Teams /\ Founds(p, c.team) /\ Named(p, c.team)
    BY <1>5, <1>8, KeepsFacts DEF OnPhone
  <2>2. SeenNamed(p, c.team)
    <3>1. CASE team[c.team].named
      BY <3>1 DEF SeenNamed
    <3>2. ASSUME NEW j \in 1 .. Len(queue[p]),
                 queue[p][j].op = "name", queue[p][j].player = p, queue[p][j].team = c.team
          PROVE  SeenNamed(p, c.team)
      <4>1. j \in Pending(p, {"name"}, p, {c.team})
        BY <3>2, QueueTypes DEF Pending, Inv
      <4> QED
        BY <4>1 DEF SeenNamed
    <3> QED
      BY <2>1, <3>1, <3>2 DEF Named
  <2> QED
    BY <1>2, <2>1, <2>2
<1>9. ASSUME p \in Uninvited
      PROVE  /\ \A u \in Teams : Founds(p, u) => ud'[p] = u /\ screen'[p] \in {"home", "team"}
             /\ \A u \in Teams : ud'[p] = u => Founds(p, u)
             /\ \A e \in calls' : e \notin calls /\ e.kind \in {"add", "query", "remove"} =>
                  Founds(p, e.team)
  BY <1>1, <1>4, <1>8, <1>9, KeepsFacts
<1> QED
  BY <1>1, <1>7, <1>9, QuietRoster

LEMMA QuietSteps ==
  ASSUME Inv, Inv', RosterInv, NEW p \in Players,
         \/ StoreTeam(p) \/ Relaunch(p) \/ OpenTab(p) \/ HearInvited(p) \/ ShowTeam(p)
         \/ ShowTraps(p) \/ HearRemoved(p) \/ (\E q \in Players : AddClick(p, q))
         \/ ClickTraps(p) \/ AddAllowed(p) \/ AddRefused(p)
         \/ (\E q \in Players : RemoveClick(p, q)) \/ RemoveRefused(p)
  PROVE  RosterInv'
<1>1. CASE StoreTeam(p) \/ HearRemoved(p)
  BY <1>1, StoreRoster
<1>2. CASE OpenTab(p) \/ HearInvited(p) \/ ShowTeam(p)
  BY <1>2, TabRoster
<1>3. CASE Relaunch(p) \/ ShowTraps(p) \/ ClickTraps(p)
  <2>1. screen[p] # "new"
    BY <1>3 DEF Relaunch, ShowTraps, ClickTraps, OnPhone, RosterInv, SignUps
  <2> QED
    BY <1>3, <2>1, RestartRoster DEF Relaunch, ShowTraps, ClickTraps
<1>4. ASSUME NEW q \in Players, AddClick(p, q) PROVE RosterInv'
  <2>1. /\ calls' = calls \cup {Pend(p, "add", ud[p], q)} /\ ud[p] # NoTeam /\ screen[p] # "new"
        /\ q \in Invites[p] /\ UNCHANGED <<queue, sent, teamOf, team, ud, screen>>
    BY <1>4 DEF AddClick
  <2> QED
    BY <2>1, AskRoster
<1>5. ASSUME NEW q \in Players, RemoveClick(p, q) PROVE RosterInv'
  <2>1. /\ calls' = calls \cup {Pend(p, "remove", ud[p], q)} /\ ud[p] # NoTeam /\ screen[p] # "new"
        /\ SeenTeam(p, q) = ud[p] /\ UNCHANGED <<queue, sent, teamOf, team, ud, screen>>
    BY <1>5 DEF RemoveClick
  <2> QED
    BY <2>1, AskRoster
<1>6. CASE AddAllowed(p)
  BY <1>6, AllowedRoster
<1>7. CASE AddRefused(p) \/ RemoveRefused(p)
  <2>1. calls' \subseteq calls /\ UNCHANGED <<queue, sent, teamOf, team, ud, screen>>
    BY <1>7 DEF AddRefused, RemoveRefused
  <2> QED
    BY <2>1, EndRoster
<1> QED
  BY <1>1, <1>2, <1>3, <1>4, <1>5, <1>6, <1>7

-----------------------------------------------------------------------------
(* The steps that write *)

LEMMA Grown ==
  ASSUME Inv, NEW p \in Players, NEW ws \in Seq(Write), Enqueue(p, ws)
  PROVE  /\ Len(queue[p]) \in Nat /\ Len(ws) \in Nat /\ Len(queue'[p]) = Len(queue[p]) + Len(ws)
         /\ \A i \in 1 .. Len(queue[p]) : queue'[p][i] = queue[p][i]
         /\ \A e \in Players : e # p => queue'[e] = queue[e]
         /\ \A i : New(p, i) => \E k \in 1 .. Len(ws) : i = Len(queue[p]) + k /\ queue'[p][i] = ws[k]
         /\ \A k \in 1 .. Len(ws) : /\ New(p, Len(queue[p]) + k)
                                    /\ queue'[p][Len(queue[p]) + k] = ws[k]
<1>1. TypeOK
  BY DEF Inv
<1>2. /\ \A e \in Players : e # p => queue'[e] = queue[e]
      /\ Len(queue'[p]) = Len(queue[p]) + Len(ws) /\ Len(ws) \in Nat /\ Len(queue[p]) \in Nat
      /\ \A i \in 1 .. Len(queue[p]) : queue'[p][i] = queue[p][i]
      /\ \A i \in 1 .. Len(ws) : queue'[p][Len(queue[p]) + i] = ws[i]
  BY <1>1, EnqueueShape, QueueTypes
<1>3. ASSUME NEW i, New(p, i)
      PROVE  \E k \in 1 .. Len(ws) : i = Len(queue[p]) + k /\ queue'[p][i] = ws[k]
  <2>1. i \in 1 .. Len(queue[p]) + Len(ws) /\ i > Len(queue[p])
    BY <1>2, <1>3 DEF New
  <2>2. i - Len(queue[p]) \in 1 .. Len(ws) /\ i = Len(queue[p]) + (i - Len(queue[p]))
    BY <1>2, <2>1
  <2> QED
    BY <1>2, <2>2
<1>4. \A k \in 1 .. Len(ws) : New(p, Len(queue[p]) + k)
  BY <1>2 DEF New
<1> QED
  BY <1>2, <1>3, <1>4

(* A new place in the queue is among those looked for if what it writes is. *)
LEMMA NewPlaces ==
  ASSUME Inv', NEW p \in Players, NEW i, New(p, i), NEW ops, NEW q, NEW ts
  PROVE  i \in Pending(p, ops, q, ts)' <=>
           queue'[p][i].op \in ops /\ queue'[p][i].player = q /\ queue'[p][i].team \in ts
<1>1. DOMAIN queue'[p] = 1 .. Len(queue'[p])
  BY LenProperties DEF Inv, TypeOK
<1> QED
  BY <1>1 DEF New, Pending

LEMMA SignUpRoster ==
  ASSUME Inv, Inv', RosterInv, NEW p \in Players, SignUp(p)
  PROVE  RosterInv'
<1> DEFINE n == Len(queue[p])
<1>1. /\ screen[p] = "new" /\ Enqueue(p, <<W("signup", p, NoTeam)>>)
      /\ ud' = [ud EXCEPT ![p] = NoTeam] /\ screen' = [screen EXCEPT ![p] = "home"]
      /\ UNCHANGED <<sent, teamOf, team, calls>>
  BY DEF SignUp
<1>2. /\ ud \in [Players -> TeamIDs] /\ screen \in [Players -> Screens]
      /\ p \notin Registered /\ \A c \in calls : screen[c.phone] # "new"
  BY <1>1 DEF Inv, TypeOK, RosterInv, SignUps
<1>3. PICK a \in Write : a = W("signup", p, NoTeam)
               /\ a.op = "signup" /\ a.player = p /\ a.team = NoTeam
  BY WTypes DEF TeamIDs
<1>4. PICK ws \in Seq(Write) : ws = <<a>> /\ Len(ws) = 1 /\ ws[1] = a
  <2>1. <<a>> \in Seq(Write) /\ Len(<<a>>) = 1 /\ <<a>>[1] = a
    OBVIOUS
  <2> QED
    BY <2>1
<1>5. /\ n \in Nat /\ Len(queue'[p]) = n + 1
      /\ \A i \in 1 .. n : queue'[p][i] = queue[p][i]
      /\ \A e \in Players : e # p => queue'[e] = queue[e]
      /\ \A i : New(p, i) => i = n + 1 /\ queue'[p][i] = a
      /\ New(p, n + 1) /\ queue'[p][n + 1] = a
  <2>1. Enqueue(p, ws) /\ 1 \in 1 .. Len(ws) /\ \A k \in 1 .. Len(ws) : k = 1
    BY <1>1, <1>3, <1>4
  <2>2. /\ n \in Nat /\ Len(queue'[p]) = n + Len(ws)
        /\ \A i \in 1 .. n : queue'[p][i] = queue[p][i]
        /\ \A e \in Players : e # p => queue'[e] = queue[e]
        /\ \A i : New(p, i) => \E k \in 1 .. Len(ws) : i = n + k /\ queue'[p][i] = ws[k]
        /\ \A k \in 1 .. Len(ws) : New(p, n + k) /\ queue'[p][n + k] = ws[k]
    BY <2>1, Grown
  <2> QED
    BY <1>4, <2>1, <2>2
<1>6. PhoneStep(p)
  BY <1>1, <1>2, <1>3, <1>5 DEF PhoneStep
<1>7. NewWrites(p)
  <2>1. ASSUME NEW i, New(p, i), NEW m \in Uninvited, NEW q \in Sole[m]
        PROVE  GoodMember(m, q, p, i)'
    <3>1. queue'[p][i] = a
      BY <1>5, <2>1
    <3>2. q = p => p = m
      BY <1>2 DEF Sole, Uninvited
    <3> QED
      BY <1>3, <3>1, <3>2 DEF GoodMember
  <2> QED
    BY <1>2, <1>3, <1>5, <2>1 DEF NewWrites
<1>8. NewCalls(p)
  BY <1>1 DEF NewCalls
<1>9. ASSUME p \in Uninvited, NEW t \in Teams PROVE ~Founds(p, t) /\ ~Founds(p, t)'
  <2>1. ~Founds(p, t)
    BY <1>1, <1>9, KeepsFacts
  <2>2. \A i : New(p, i) => ~Creates(p, i, t)'
    BY <1>3, <1>5 DEF Creates
  <2> QED
    BY <1>6, <2>1, <2>2, PhoneBorn
<1>10. ASSUME p \in Uninvited PROVE Keeps(p)'
  <2>1. ud'[p] = NoTeam /\ NoTeam \notin Teams /\ \A c \in calls' : c.phone # p
    BY <1>1, <1>2, TeamsAssumption
  <2> QED
    BY <1>9, <1>10, <2>1 DEF Keeps
<1>11. ASSUME p \in Uninvited, NEW q \in Sole[p] PROVE Agree(p, q)'
  <2>1. q \in Players /\ Agree(p, q) /\ NoTeam \notin Teams
    BY <1>11, SoleFacts, TeamsAssumption DEF RosterInv, Roster
  <2>2. SeenTeam(p, q) \notin Teams
    BY <1>9, <1>11, SeenTeamFounds
  <2>3. ASSUME NEW t \in Teams PROVE ~SeenMember(p, t, q)'
    <3>1. \A i : New(p, i) => i \notin Lists(p, t, q)'
      BY <1>3, <1>5, NewPlaces DEF Lists
    <3>2. SeenMember(p, t, q)' = SeenMember(p, t, q)
      BY <1>6, <2>1, <3>1, PhoneSeen
    <3> QED
      BY <2>1, <2>2, <3>2 DEF Agree
  <2>4. SeenTeam(p, q)' \notin Teams
    <3>1. CASE q = p
      <4>1. n + 1 \in Puts(p, q)'
        BY <1>3, <1>5, <3>1, NewPlaces DEF Puts, TeamIDs
      <4>2. \A j \in Puts(p, q)' : j <= n + 1
        BY <1>5, PhoneTypes, <1>6 DEF Puts, Pending
      <4>3. SeenTeam(p, q)' = NoTeam
        BY <1>3, <1>5, <1>6, <2>1, <4>1, <4>2, PhoneSeenLast
      <4> QED
        BY <2>1, <4>3
    <3>2. CASE q # p
      <4>1. \A i : New(p, i) => i \notin Puts(p, q)'
        BY <1>3, <1>5, <3>2, NewPlaces DEF Puts
      <4> QED
        BY <1>6, <2>1, <2>2, <4>1, PhoneSeen
    <3> QED
      BY <3>1, <3>2
  <2> QED
    BY <2>3, <2>4 DEF Agree
<1>12. \A q : p \in Uninvited /\ q \in Sole[p] => Agree(p, q)'
  BY <1>11
<1> QED
  BY <1>6, <1>7, <1>8, <1>10, <1>12, PhoneRoster

LEMMA NotDrawn ==
  ASSUME Inv, NEW t \in Teams, ~Drawn(t)
  PROVE  Fresh(t)
<1>1. team[t] = NoDoc
  BY DEF Drawn
<1>2. ASSUME NEW e \in Players, NEW j \in 1 .. Len(queue[e]), Creates(e, j, t) PROVE FALSE
  <2>1. queue[e][j].op = "create" /\ queue[e][j].team = t /\ queue[e][j].player = e
    BY <1>2 DEF Creates, Inv, Writes, GoodWrite
  <2>2. j \in Pending(e, {"create"}, e, {t})
    BY <2>1, QueueTypes DEF Pending, Inv
  <2> QED
    BY <2>2 DEF Drawn
<1> QED
  BY <1>1, <1>2 DEF Fresh

LEMMA CreateRoster ==
  ASSUME Inv, Inv', RosterInv, NEW p \in Players, NEW t \in Teams, CreateTeam(p, t)
  PROVE  RosterInv'
<1>0. PICK n \in Nat : n = Len(queue[p])
  BY QueueTypes DEF Inv
<1>1. /\ p \in Founders /\ screen[p] = "none" /\ Fresh(t)
      /\ Enqueue(p, <<W("create", p, t), W("name", p, t), W("put", p, t)>>)
      /\ ud' = [ud EXCEPT ![p] = t] /\ screen' = [screen EXCEPT ![p] = "team"]
      /\ UNCHANGED <<sent, teamOf, team, calls>>
  BY NotDrawn DEF CreateTeam
<1>2. /\ ud'[p] = t /\ screen'[p] = "team"
      /\ \A e \in Players : e # p => ud'[e] = ud[e] /\ screen'[e] = screen[e]
  BY <1>1 DEF Inv, TypeOK
<1>3. PICK a \in Write, b \in Write, c \in Write :
        /\ a = W("create", p, t) /\ a.op = "create" /\ a.player = p /\ a.team = t
        /\ b = W("name", p, t) /\ b.op = "name" /\ b.player = p /\ b.team = t
        /\ c = W("put", p, t) /\ c.op = "put" /\ c.player = p /\ c.team = t
  BY WTypes DEF TeamIDs
<1>4. PICK ws \in Seq(Write) :
        ws = <<a, b, c>> /\ Len(ws) = 3 /\ ws[1] = a /\ ws[2] = b /\ ws[3] = c
  <2>1. /\ <<a, b, c>> \in Seq(Write) /\ Len(<<a, b, c>>) = 3
        /\ <<a, b, c>>[1] = a /\ <<a, b, c>>[2] = b /\ <<a, b, c>>[3] = c
    OBVIOUS
  <2> QED
    BY <2>1
<1>5. /\ n \in Nat /\ n = Len(queue[p]) /\ Len(queue'[p]) = n + 3
      /\ \A i \in 1 .. n : queue'[p][i] = queue[p][i]
      /\ \A e \in Players : e # p => queue'[e] = queue[e]
      /\ \A i : New(p, i) => \/ i = n + 1 /\ queue'[p][i] = a
                             \/ i = n + 2 /\ queue'[p][i] = b
                             \/ i = n + 3 /\ queue'[p][i] = c
      /\ New(p, n + 1) /\ New(p, n + 2) /\ New(p, n + 3)
      /\ queue'[p][n + 1] = a /\ queue'[p][n + 2] = b /\ queue'[p][n + 3] = c
  <2>1. Enqueue(p, ws) /\ 1 \in 1 .. Len(ws) /\ 2 \in 1 .. Len(ws) /\ 3 \in 1 .. Len(ws)
        /\ \A k \in 1 .. Len(ws) : k = 1 \/ k = 2 \/ k = 3
    BY <1>1, <1>3, <1>4
  <2>2. /\ Len(queue'[p]) = Len(queue[p]) + Len(ws)
        /\ \A i \in 1 .. Len(queue[p]) : queue'[p][i] = queue[p][i]
        /\ \A e \in Players : e # p => queue'[e] = queue[e]
        /\ \A i : New(p, i) =>
             \E k \in 1 .. Len(ws) : i = Len(queue[p]) + k /\ queue'[p][i] = ws[k]
        /\ \A k \in 1 .. Len(ws) :
             New(p, Len(queue[p]) + k) /\ queue'[p][Len(queue[p]) + k] = ws[k]
    BY <2>1, Grown
  <2>3. \A i : New(p, i) => \E k \in 1 .. Len(ws) : i = n + k /\ queue'[p][i] = ws[k]
    BY <1>0, <2>2
  <2>4. \A k \in 1 .. Len(ws) : New(p, n + k) /\ queue'[p][n + k] = ws[k]
    BY <1>0, <2>2
  <2>5. ASSUME NEW i, New(p, i)
        PROVE  \/ i = n + 1 /\ queue'[p][i] = a
               \/ i = n + 2 /\ queue'[p][i] = b
               \/ i = n + 3 /\ queue'[p][i] = c
    <3>1. PICK k \in 1 .. Len(ws) : i = n + k /\ queue'[p][i] = ws[k]
      BY <2>3, <2>5
    <3> QED
      BY <1>4, <2>1, <3>1
  <2>6. /\ New(p, n + 1) /\ New(p, n + 2) /\ New(p, n + 3)
        /\ queue'[p][n + 1] = a /\ queue'[p][n + 2] = b /\ queue'[p][n + 3] = c
    BY <1>4, <2>1, <2>4
  <2> QED
    BY <1>0, <1>4, <2>2, <2>5, <2>6
<1>6. PhoneStep(p)
  BY <1>0, <1>1, <1>2, <1>5 DEF PhoneStep
<1>7. \A i : New(p, i) => queue'[p][i].player = p /\ queue'[p][i].team = t
                          /\ (queue'[p][i].op = "create" => i = n + 1)
                          /\ (queue'[p][i].op \in MemberOps => i = n + 3 /\ queue'[p][i].op = "put")
  BY <1>3, <1>5 DEF MemberOps
<1>8. /\ Creates(p, n + 1, t)' /\ \A i \in 1 .. Len(queue'[p]) : Creates(p, i, t)' => i = n + 1
      /\ Founds(p, t)' /\ Born(p, n + 3, t)'
  <2>1. Creates(p, n + 1, t)'
    BY <1>3, <1>5 DEF Creates
  <2>2. ASSUME NEW i \in 1 .. Len(queue'[p]), Creates(p, i, t)' PROVE i = n + 1
    <3>1. CASE i \in 1 .. n
      BY <1>1, <1>5, <2>2, <3>1 DEF Fresh, Creates
    <3>2. CASE ~(i \in 1 .. n)
      <4>1. New(p, i)
        BY <1>5, <3>2 DEF New
      <4> QED
        BY <1>7, <2>2, <4>1 DEF Creates
    <3> QED
      BY <3>1, <3>2
  <2>3. n + 1 \in 1 .. (Len(queue'[p]) + 1) - 1 /\ n + 1 \in 1 .. (n + 3) - 1
    BY <1>5
  <2> QED
    BY <2>1, <2>2, <2>3 DEF Founds, Born, Creates
<1>9. NewWrites(p)
  <2>1. ASSUME NEW i, New(p, i), NEW m \in Uninvited, NEW q \in Sole[m]
        PROVE  GoodMember(m, q, p, i)'
    <3>1. SUFFICES ASSUME q = p, i = n + 3
                   PROVE  GoodMember(m, q, p, i)'
      BY <1>7, <2>1 DEF GoodMember
    <3>2. p = m
      BY <1>1, <3>1 DEF Sole, Uninvited
    <3>3. \/ teamOf'[p] # Missing
          \/ \E j \in 1 .. (n + 3) - 1 : queue'[p][j].op = "signup"
      <4>1. teamOf[p] # Missing \/ \E j \in 1 .. n : queue[p][j].op = "signup"
        BY <1>0, <1>1 DEF RosterInv, SignUps
      <4>2. \A j \in 1 .. n : j \in 1 .. (n + 3) - 1
        BY <1>5
      <4> QED
        BY <1>1, <1>5, <4>1, <4>2
    <3> QED
      BY <1>3, <1>5, <1>8, <3>1, <3>2, <3>3 DEF GoodMember, Born, Creates
  <2> QED
    BY <1>1, <1>3, <1>5, <1>7, <2>1 DEF NewWrites, MemberOps
<1>10. NewCalls(p)
  BY <1>1 DEF NewCalls
<1>11. ASSUME p \in Uninvited, NEW u \in Teams
       PROVE  ~Founds(p, u) /\ (Founds(p, u)' => u = t)
  <2>1. ~Founds(p, u)
    BY <1>1, <1>11, KeepsFacts
  <2>2. \A i : New(p, i) /\ Creates(p, i, u)' => u = t
    BY <1>7 DEF Creates
  <2> QED
    BY <1>6, <2>1, <2>2, PhoneBorn
<1>12. SeenTeam(p, p)' = t
  <2>1. n + 3 \in Puts(p, p)'
    <3>1. New(p, n + 3) /\ queue'[p][n + 3].op = "put" /\ queue'[p][n + 3].player = p
          /\ queue'[p][n + 3].team \in TeamIDs
      BY <1>3, <1>5 DEF TeamIDs
    <3> QED
      BY <3>1, NewPlaces DEF Puts
  <2>2. \A j \in Puts(p, p)' : j <= n + 3
    BY <1>5, <1>6, PhoneTypes DEF Puts, Pending
  <2> QED
    BY <1>3, <1>5, <1>6, <2>1, <2>2, PhoneSeenLast
<1>13. ASSUME p \in Uninvited PROVE Keeps(p)'
  <2>1. Named(p, t)'
    <3>1. /\ n + 2 \in 1 .. Len(queue'[p]) /\ ~(n + 2 <= sent'[p])
          /\ \A i \in 1 .. Len(queue'[p]) : Creates(p, i, t)' => i < n + 2
      BY <1>1, <1>5, <1>6, <1>8, PhoneTypes
    <3> QED
      BY <1>3, <1>5, <3>1 DEF Named, Creates
  <2>2. ASSUME NEW e \in calls', e.phone = p, e.kind \in {"add", "query", "remove"} PROVE FALSE
    <3>1. e \in OnPhone(p, {"add", "query", "remove"})
      BY <1>1, <2>2 DEF OnPhone
    <3> QED
      BY <1>11, <1>13, <3>1, KeepsFacts
  <2>3. ASSUME NEW u \in Teams, Founds(p, u)'
        PROVE  /\ ud'[p] = u /\ screen'[p] \in {"home", "team"}
               /\ SeenTeam(p, p)' = u /\ Named(p, u)'
    <3>1. u = t
      BY <1>11, <1>13, <2>3
    <3> QED
      BY <1>2, <1>12, <2>1, <3>1 DEF Named, Creates
  <2>4. Founds(p, ud[p])'
    BY <1>2, <1>8 DEF Founds, Born, Creates
  <2> QED
    BY <2>2, <2>3, <2>4 DEF Keeps
<1>14. ASSUME p \in Uninvited, NEW q \in Sole[p] PROVE Agree(p, q)'
  <2>1. q \in Players /\ Agree(p, q)
    BY <1>14, SoleFacts DEF RosterInv, Roster
  <2>2. SeenTeam(p, q) \notin Teams
    BY <1>11, <1>14, SeenTeamFounds
  <2>3. ASSUME NEW u \in Teams, q # p \/ u # t PROVE ~SeenMember(p, u, q)'
    <3>1. \A i : New(p, i) => i \notin Lists(p, u, q)'
      BY <1>7, <2>3, NewPlaces DEF Lists
    <3>2. SeenMember(p, u, q)' = SeenMember(p, u, q)
      BY <1>6, <2>1, <3>1, PhoneSeen
    <3> QED
      BY <2>1, <2>2, <3>2 DEF Agree
  <2>4. CASE q = p
    <3>1. n + 1 \in Lists(p, t, q)'
      <4>1. New(p, n + 1) /\ queue'[p][n + 1].op = "create" /\ queue'[p][n + 1].player = q
            /\ queue'[p][n + 1].team = t
        BY <1>3, <1>5, <2>4
      <4> QED
        BY <4>1, NewPlaces DEF Lists
    <3>2. ASSUME NEW j \in Lists(p, t, q)' PROVE j <= n + 1
      <4>1. j \in 1 .. Len(queue'[p]) /\ queue'[p][j].op \in {"create", "list", "unlist"}
        BY <1>6, PhoneTypes DEF Lists, Pending
      <4>2. CASE j \in 1 .. n
        BY <1>5, <4>2
      <4>3. CASE ~(j \in 1 .. n)
        <5>1. New(p, j)
          BY <1>5, <4>1, <4>3 DEF New
        <5> QED
          BY <1>5, <1>7, <4>1, <5>1 DEF MemberOps
      <4> QED
        BY <4>2, <4>3
    <3>3. SeenMember(p, t, q)'
      BY <1>3, <1>5, <1>6, <2>1, <3>1, <3>2, PhoneSeenLast
    <3>4. \A u \in Teams : SeenTeam(p, q)' = u <=> u = t
      BY <1>12, <2>4
    <3> QED
      BY <2>3, <3>3, <3>4 DEF Agree
  <2>5. CASE q # p
    <3>1. \A i : New(p, i) => i \notin Puts(p, q)'
      BY <1>7, <2>5, NewPlaces DEF Puts
    <3>2. SeenTeam(p, q)' = SeenTeam(p, q)
      BY <1>6, <2>1, <3>1, PhoneSeen
    <3> QED
      BY <2>2, <2>3, <2>5, <3>2 DEF Agree
  <2> QED
    BY <2>4, <2>5
<1>15. \A q : p \in Uninvited /\ q \in Sole[p] => Agree(p, q)'
  BY <1>14
<1> QED
  BY <1>6, <1>9, <1>10, <1>13, <1>15, PhoneRoster

(* A phone writes about players no manager of those nobody can add has to   *)
(* himself.                                                                 *)
LEMMA OthersRoster ==
  ASSUME Inv, Inv', RosterInv, NEW p \in Players, p \notin Uninvited,
         NEW ws \in Seq(Write), Enqueue(p, ws),
         \A k \in 1 .. Len(ws) : /\ ws[k].op \in {"put", "list", "unlist"}
                                 /\ \A m \in Uninvited : ws[k].player \notin Sole[m],
         UNCHANGED <<sent, teamOf, team, ud>>,
         screen[p] # "new", screen'[p] # "new", \A e \in Players : e # p => screen'[e] = screen[e],
         \A c \in calls' : c \notin calls => c.phone = p /\ c.kind = "store"
  PROVE  RosterInv'
<1>1. PhoneStep(p)
  BY Grown DEF PhoneStep
<1>2. ASSUME NEW i, New(p, i)
      PROVE  /\ queue'[p][i].op \in {"put", "list", "unlist"}
             /\ \A m \in Uninvited : queue'[p][i].player \notin Sole[m]
  <2>1. PICK k \in 1 .. Len(ws) : queue'[p][i] = ws[k]
    BY <1>2, Grown
  <2> QED
    BY <2>1
<1>3. NewWrites(p)
  BY <1>2 DEF NewWrites, GoodMember
<1>4. NewCalls(p)
  BY DEF NewCalls
<1> QED
  BY <1>1, <1>3, <1>4, PhoneRoster

(* A manager nobody can add adds q to his team or removes him from it. *)
LEMMA OwnRoster ==
  ASSUME Inv, Inv', RosterInv, NEW p \in Uninvited, NEW q \in Players, q # p,
         NEW t \in Teams, ud[p] = t, NEW u \in TeamIDs, NEW op,
         \/ u = t /\ op = "list" /\ SeenTeam(p, q) = NoTeam
         \/ u = NoTeam /\ op = "unlist",
         \A m \in Uninvited : q \in Sole[m] => p = m,
         Enqueue(p, <<W("put", q, u), W(op, q, t)>>), calls' \subseteq calls,
         UNCHANGED <<sent, teamOf, team, ud, screen>>
  PROVE  RosterInv'
<1>0. PICK n \in Nat : n = Len(queue[p]) /\ p \in Players
  BY KeepsFacts, QueueTypes DEF Inv
<1>1. /\ NoTeam \notin Teams /\ Founds(p, t) /\ screen[p] # "new"
      /\ \A v \in Teams : Founds(p, v) => v = t
  BY KeepsFacts
<1>2. PICK a \in Write, b \in Write :
        /\ a = W("put", q, u) /\ a.op = "put" /\ a.player = q /\ a.team = u
        /\ b = W(op, q, t) /\ b.op = op /\ b.player = q /\ b.team = t
  BY WTypes DEF TeamIDs
<1>3. PICK ws \in Seq(Write) : ws = <<a, b>> /\ Len(ws) = 2 /\ ws[1] = a /\ ws[2] = b
  <2>1. <<a, b>> \in Seq(Write) /\ Len(<<a, b>>) = 2 /\ <<a, b>>[1] = a /\ <<a, b>>[2] = b
    OBVIOUS
  <2> QED
    BY <2>1
<1>4. /\ n = Len(queue[p]) /\ Len(queue'[p]) = n + 2
      /\ \A i \in 1 .. n : queue'[p][i] = queue[p][i]
      /\ \A e \in Players : e # p => queue'[e] = queue[e]
      /\ \A i : New(p, i) => \/ i = n + 1 /\ queue'[p][i] = a
                             \/ i = n + 2 /\ queue'[p][i] = b
      /\ New(p, n + 1) /\ New(p, n + 2)
      /\ queue'[p][n + 1] = a /\ queue'[p][n + 2] = b
  <2>1. Enqueue(p, ws) /\ 1 \in 1 .. Len(ws) /\ 2 \in 1 .. Len(ws)
        /\ \A k \in 1 .. Len(ws) : k = 1 \/ k = 2
    BY <1>2, <1>3
  <2>2. /\ Len(queue'[p]) = Len(queue[p]) + Len(ws)
        /\ \A i \in 1 .. Len(queue[p]) : queue'[p][i] = queue[p][i]
        /\ \A e \in Players : e # p => queue'[e] = queue[e]
        /\ \A i : New(p, i) =>
             \E k \in 1 .. Len(ws) : i = Len(queue[p]) + k /\ queue'[p][i] = ws[k]
        /\ \A k \in 1 .. Len(ws) :
             New(p, Len(queue[p]) + k) /\ queue'[p][Len(queue[p]) + k] = ws[k]
    BY <1>0, <2>1, Grown
  <2>3. ASSUME NEW i, New(p, i)
        PROVE  \/ i = n + 1 /\ queue'[p][i] = a
               \/ i = n + 2 /\ queue'[p][i] = b
    <3>1. PICK k \in 1 .. Len(ws) : i = n + k /\ queue'[p][i] = ws[k]
      BY <1>0, <2>2, <2>3
    <3>2. k = 1 \/ k = 2
      BY <2>1
    <3> QED
      BY <1>3, <3>1, <3>2
  <2>4. New(p, n + 1) /\ New(p, n + 2) /\ queue'[p][n + 1] = a /\ queue'[p][n + 2] = b
    BY <1>0, <1>3, <2>1, <2>2
  <2> QED
    BY <1>0, <1>3, <2>2, <2>3, <2>4
<1>5. PhoneStep(p)
  BY <1>0, <1>1, <1>4 DEF PhoneStep
<1>6. /\ \A i : New(p, i) => queue'[p][i].player = q /\ queue'[p][i].op \in {"put", "list", "unlist"}
      /\ \A i, v : New(p, i) => ~Creates(p, i, v)'
  BY <1>2, <1>4 DEF Creates
<1>7. Born(p, n + 1, t)' /\ Born(p, n + 2, t)'
  <2>1. \A i \in Nat : i > n => Born(p, i, t)'
    BY <1>0, <1>1, <1>5, PhoneBorn
  <2>2. PICK i \in Nat, j \in Nat : i = n + 1 /\ j = n + 2
    OBVIOUS
  <2>3. Born(p, i, t)' /\ Born(p, j, t)'
    BY <2>1, <2>2
  <2> QED
    BY <2>2, <2>3
<1>8. NewWrites(p)
  <2>1. ASSUME NEW i, New(p, i), NEW m \in Uninvited, q \in Sole[m]
        PROVE  GoodMember(m, q, p, i)'
    <3>1. p = m /\ teamOf'[q] # Missing
      BY <2>1 DEF Sole, Uninvited, RosterInv, SignUps
    <3>2. CASE i = n + 1
      <4>1. queue'[p][i].op = "put" /\ queue'[p][i].team = u
        BY <1>2, <1>4, <3>2
      <4>2. u = NoTeam \/ Born(p, i, u)'
        BY <1>7, <3>2 DEF Born, Creates
      <4> QED
        BY <3>1, <4>1, <4>2 DEF GoodMember, Born, Creates
    <3>3. CASE i = n + 2
      <4>1. ASSUME NEW j \in 1 .. Len(queue'[p]), Creates(p, j, t)' PROVE j < n + 2
        BY <1>4, <1>6, <4>1
      <4>2. queue'[p][i].op = op /\ queue'[p][i].team = t
        BY <1>2, <1>4, <3>3
      <4>3. Born(p, i, t)'
        BY <1>7, <3>3 DEF Born, Creates
      <4>4. \A j \in 1 .. Len(queue'[p]) : Creates(p, j, t)' => j < i
        BY <3>3, <4>1
      <4> QED
        BY <3>1, <4>2, <4>3, <4>4 DEF GoodMember, Born, Creates
    <3> QED
      BY <1>4, <2>1, <3>2, <3>3
  <2>2. ASSUME NEW i, New(p, i), NEW m \in Uninvited, NEW e \in Sole[m]
        PROVE  GoodMember(m, e, p, i)'
    <3>1. CASE e = q
      BY <2>1, <2>2, <3>1 DEF GoodMember, Born, Creates
    <3>2. CASE e # q
      BY <1>6, <2>2, <3>2 DEF GoodMember
    <3> QED
      BY <3>1, <3>2
  <2> QED
    BY <1>6, <2>2 DEF NewWrites
<1>9. NewCalls(p)
  BY DEF NewCalls
<1>10. ASSUME NEW e \in Players, e # q
       PROVE  /\ SeenTeam(p, e)' = SeenTeam(p, e)
              /\ \A v \in Teams : SeenMember(p, v, e)' = SeenMember(p, v, e)
  <2>1. \A i, v : New(p, i) => i \notin Puts(p, e)' /\ i \notin Lists(p, v, e)'
    BY <1>0, <1>6, <1>10, NewPlaces DEF Puts, Lists
  <2> QED
    BY <1>0, <1>5, <2>1, PhoneSeen
<1>11. Keeps(p)'
  <2>1. Keeps(p) /\ \A v : Founds(p, v) <=> Founds(p, v)'
    BY <1>0, <1>5, <1>6, PhoneBorn DEF RosterInv
  <2>2. \A v : Named(p, v) => Named(p, v)'
    BY <1>0, <1>5, <1>6, PhoneNamed
  <2>3. ASSUME NEW v \in Teams, Founds(p, v)'
        PROVE  /\ ud'[p] = v /\ screen'[p] \in {"home", "team"}
               /\ SeenTeam(p, p)' = v /\ Named(p, v)'
    BY <1>0, <1>10, <2>1, <2>2, <2>3 DEF Keeps
  <2>4. ud'[p] \in Teams => Founds(p, ud[p])'
    BY <2>1 DEF Keeps, Founds, Born, Creates
  <2>5. \A c \in calls' : c.phone = p /\ c.kind \in {"add", "query", "remove"} => Founds(p, c.team)'
    BY <2>1 DEF Keeps
  <2> QED
    BY <2>3, <2>4, <2>5 DEF Keeps
<1>12. ASSUME q \in Sole[p] PROVE Agree(p, q)'
  <2>1. Agree(p, q) /\ (SeenTeam(p, q) \in Teams => SeenTeam(p, q) = t)
    BY <1>1, <1>12, SeenTeamFounds DEF RosterInv, Roster
  <2>2. SeenTeam(p, q)' = u
    <3>1. n + 1 \in Puts(p, q)'
      BY <1>0, <1>2, <1>4, NewPlaces DEF Puts
    <3>2. n + 2 \notin Puts(p, q)'
      BY <1>0, <1>2, <1>4, NewPlaces DEF Puts
    <3>3. Puts(p, q)' \subseteq 1 .. n + 2
      BY <1>0, <1>4, <1>5, PhoneTypes DEF Puts, Pending
    <3>4. \A j \in Puts(p, q)' : j <= n + 1
      BY <3>2, <3>3
    <3> QED
      BY <1>0, <1>2, <1>4, <1>5, <3>1, <3>4, PhoneSeenLast
  <2>3. SeenMember(p, t, q)' <=> op # "unlist"
    <3>1. n + 2 \in Lists(p, t, q)'
      <4>1. New(p, n + 2) /\ queue'[p][n + 2].op \in {"list", "unlist"}
            /\ queue'[p][n + 2].player = q /\ queue'[p][n + 2].team = t
        BY <1>2, <1>4
      <4> QED
        BY <1>0, <4>1, NewPlaces DEF Lists
    <3>2. \A j \in Lists(p, t, q)' : j <= n + 2
      BY <1>0, <1>4, <1>5, PhoneTypes DEF Lists, Pending
    <3> QED
      BY <1>0, <1>2, <1>4, <1>5, <3>1, <3>2, PhoneSeenLast
  <2>4. ASSUME NEW v \in Teams, v # t PROVE ~SeenMember(p, v, q)'
    <3>1. \A i : New(p, i) => i \notin Lists(p, v, q)'
      <4>1. \A i : New(p, i) => queue'[p][i].op = "put" \/ queue'[p][i].team # v
        BY <1>2, <1>4, <2>4
      <4> QED
        BY <1>0, <4>1, NewPlaces DEF Lists
    <3>2. SeenMember(p, v, q)' = SeenMember(p, v, q)
      BY <1>0, <1>5, <3>1, PhoneSeen
    <3> QED
      BY <2>1, <2>4, <3>2 DEF Agree
  <2> QED
    BY <1>1, <2>2, <2>3, <2>4 DEF Agree
<1>13. ASSUME NEW e \in Sole[p] PROVE Agree(p, e)'
  <2>1. CASE e = q
    BY <1>12, <1>13, <2>1 DEF Agree
  <2>2. CASE e # q
    <3>1. e \in Players /\ Agree(p, e)
      BY <1>13, SoleFacts DEF RosterInv, Roster
    <3> QED
      BY <1>10, <2>2, <3>1 DEF Agree
  <2> QED
    BY <2>1, <2>2
<1>14. \A e : e \in Sole[p] => Agree(p, e)'
  BY <1>13
<1> QED
  BY <1>0, <1>5, <1>8, <1>9, <1>11, <1>14, PhoneRoster

LEMMA MemberRoster ==
  ASSUME Inv, Inv', RosterInv, NEW p \in Players,
         AddPlayer(p) \/ AddTraps(p) \/ RemoveMember(p) \/ RemoveTraps(p)
  PROVE  RosterInv'
<1>1. PICK c \in OnPhone(p, {"add", "query", "remove"}), q \in Players, u \in TeamIDs,
           op \in {"list", "unlist"} :
        /\ \/ u = c.team /\ op = "list" /\ SeenTeam(p, q) = NoTeam
           \/ u = NoTeam /\ op = "unlist"
        /\ \/ /\ ud[p] # NoTeam /\ Enqueue(p, <<W("put", q, u), W(op, q, ud[p])>>)
              /\ calls' \subseteq calls /\ screen' = screen
           \/ /\ ud[p] = NoTeam /\ Enqueue(p, <<W("put", q, u)>>) /\ Restart(p)
        /\ \A m \in Uninvited : q \in Sole[m] => p = m
        /\ p \in Uninvited => q # p
        /\ UNCHANGED <<sent, teamOf, team, ud>>
  <2>1. CASE AddPlayer(p) \/ AddTraps(p)
    <3>1. PICK c \in OnPhone(p, {"query"}), q \in Players :
            /\ q \in Found(p, c)
            /\ SeenTeam(p, q) = NoTeam
            /\ \/ /\ ud[p] # NoTeam /\ Enqueue(p, <<W("put", q, c.team), W("list", q, ud[p])>>)
                  /\ calls' = calls \ {c} /\ screen' = screen
               \/ /\ ud[p] = NoTeam /\ Enqueue(p, <<W("put", q, c.team)>>) /\ Restart(p)
            /\ UNCHANGED <<sent, teamOf, team, ud>>
      BY <2>1 DEF AddPlayer, AddTraps, Found
    <3>2. c \in OnPhone(p, {"add", "query", "remove"}) /\ c.player \in Invites[p]
      BY DEF OnPhone, RosterInv, Invited
    <3>3. q \in Players /\ q \in LedTo[p]
      BY <3>1, <3>2 DEF Found, LedTo
    <3>4. /\ \A m \in Uninvited : q \in Sole[m] => p = m
          /\ p \in Uninvited => q # p
      BY <3>3 DEF Sole, Uninvited
    <3>5. c.team \in TeamIDs
      BY CallTypes
    <3> QED
      BY <3>1, <3>2, <3>3, <3>4, <3>5
  <2>2. CASE RemoveMember(p) \/ RemoveTraps(p)
    <3>1. PICK c \in OnPhone(p, {"remove"}) :
            /\ SeenManager(p, c.team) = p /\ c.player # p
            /\ \/ /\ ud[p] # NoTeam
                  /\ Enqueue(p, <<W("put", c.player, NoTeam), W("unlist", c.player, ud[p])>>)
                  /\ calls' = calls \ {c} /\ screen' = screen
               \/ /\ ud[p] = NoTeam /\ Enqueue(p, <<W("put", c.player, NoTeam)>>) /\ Restart(p)
            /\ UNCHANGED <<sent, teamOf, team, ud>>
      BY <2>2 DEF RemoveMember, RemoveTraps, MayRemove
    <3>2. /\ c \in OnPhone(p, {"add", "query", "remove"}) /\ c \in calls /\ c.kind = "remove"
          /\ c.phone = p /\ c.player \in Players /\ NoTeam \in TeamIDs
      BY CallTypes DEF OnPhone, TeamIDs
    <3>3. ASSUME NEW m \in Uninvited, c.player \in Sole[m], p # m PROVE FALSE
      <4>1. c.team \in Teams /\ team[c.team].manager = m /\ m \in Players
        BY <3>2, <3>3, SoleFacts DEF RosterInv, Roster, Removals
      <4>2. PICK i \in Pending(p, {"create"}, p, {c.team}) : TRUE
        BY <3>1, <3>3, <4>1 DEF SeenManager
      <4>3. i \in 1 .. Len(queue[p]) /\ Creates(p, i, c.team)
        BY <4>2, QueueTypes DEF Pending, Creates, Inv
      <4>4. team[c.team].manager \in {NoPlayer, p}
        BY <4>1, <4>3 DEF RosterInv, OneFounder
      <4> QED
        BY <3>3, <4>1, <4>4, TeamsAssumption
    <3>4. \A m \in Uninvited : c.player \in Sole[m] => p = m
      BY <3>3
    <3> QED
      BY <3>1, <3>2, <3>4
  <2> QED
    BY <2>1, <2>2
<1>2. /\ screen \in [Players -> Screens] /\ ud[p] \in TeamIDs /\ screen[p] # "new"
  BY DEF Inv, TypeOK, OnPhone, RosterInv, SignUps
<1>3. CASE p \in Uninvited
  <2>1. /\ c.team \in Teams /\ ud[p] = c.team /\ NoTeam \notin Teams
    BY <1>3, KeepsFacts
  <2>2. PICK t \in Teams : t = c.team /\ t = ud[p] /\ t # NoTeam
    BY <2>1
  <2>3. /\ \/ u = t /\ op = "list" /\ SeenTeam(p, q) = NoTeam
           \/ u = NoTeam /\ op = "unlist"
        /\ Enqueue(p, <<W("put", q, u), W(op, q, t)>>) /\ calls' \subseteq calls
        /\ UNCHANGED <<sent, teamOf, team, ud, screen>>
    BY <1>1, <2>2
  <2> QED
    BY <1>1, <1>3, <2>2, <2>3, OwnRoster
<1>4. CASE p \notin Uninvited
  <2>1. \A m \in Uninvited : q \notin Sole[m]
    BY <1>1, <1>4
  <2>2. PICK a \in Write, b \in Write :
          /\ a = W("put", q, u) /\ a.op = "put" /\ a.player = q
          /\ b = W(op, q, ud[p]) /\ b.op = op /\ b.player = q
    BY <1>2, WTypes
  <2>3. /\ <<a, b>> \in Seq(Write) /\ Len(<<a, b>>) = 2 /\ <<a, b>>[1] = a /\ <<a, b>>[2] = b
        /\ <<a>> \in Seq(Write) /\ Len(<<a>>) = 1 /\ <<a>>[1] = a
        /\ \A k \in 1 .. 2 : <<a, b>>[k] = a \/ <<a, b>>[k] = b
        /\ \A k \in 1 .. 1 : <<a>>[k] = a
    OBVIOUS
  <2>4. PICK ws \in Seq(Write) :
          /\ Enqueue(p, ws)
          /\ \A k \in 1 .. Len(ws) : ws[k] = a \/ ws[k] = b
    <3>1. CASE Enqueue(p, <<a, b>>)
      BY <2>3, <3>1
    <3>2. CASE Enqueue(p, <<a>>)
      BY <2>3, <3>2
    <3> QED
      BY <1>1, <2>2, <3>1, <3>2
  <2>5. /\ screen'[p] # "new" /\ \A e \in Players : e # p => screen'[e] = screen[e]
        /\ \A e \in calls' : e \notin calls => e.phone = p /\ e.kind = "store"
    <3>1. CASE calls' \subseteq calls /\ screen' = screen
      BY <1>2, <3>1
    <3>2. CASE Restart(p)
      <4>1. calls' \subseteq calls \cup {Pend(p, "store", NoTeam, p)}
        BY <3>2 DEF Restart
      <4> QED
        BY <1>2, <3>2, <4>1, PendFields DEF Restart
    <3> QED
      BY <1>1, <3>1, <3>2
  <2>6. \A k \in 1 .. Len(ws) : /\ ws[k].op \in {"put", "list", "unlist"}
                                /\ \A m \in Uninvited : ws[k].player \notin Sole[m]
    BY <2>1, <2>2, <2>4
  <2> QED
    BY <1>1, <1>2, <1>4, <2>4, <2>5, <2>6, OthersRoster
<1> QED
  BY <1>3, <1>4

-----------------------------------------------------------------------------
LEMMA InitRoster == Init => RosterInv
<1> SUFFICES ASSUME Init PROVE RosterInv
  OBVIOUS
<1>0. Inv /\ NoTeam \notin Teams /\ Missing \notin Teams /\ Missing # NoTeam /\ NoPlayer \notin Players
  BY InitInv, TeamsAssumption
<1>1. /\ \A p \in Players : Len(queue[p]) = 0 /\ DOMAIN queue[p] = {} /\ 1 .. Len(queue[p]) = {}
      /\ calls = {}
      /\ \A p \in Players : teamOf[p] = IF p \in Registered THEN NoTeam ELSE Missing
      /\ \A p \in Players : ud[p] = NoTeam
      /\ \A p \in Players : screen[p] = IF p \in Registered THEN "home" ELSE "new"
      /\ \A t \in Teams : team[t] = NoDoc
  BY <1>0, QueueTypes DEF Init, Inv
<1>2. \A p \in Players : \A ops, q, ts : Pending(p, ops, q, ts) = {}
  BY <1>1 DEF Pending
<1>3. OneFounder /\ SignUps /\ Invited
  BY <1>0, <1>1 DEF OneFounder, SignUps, Invited
<1>4. \A p \in Players, t \in Teams : ~Founds(p, t)
  <2>1. SUFFICES ASSUME NEW p \in Players, NEW t \in Teams, Founds(p, t) PROVE FALSE
    OBVIOUS
  <2>2. 1 .. (Len(queue[p]) + 1) - 1 = {}
    BY <1>1
  <2> QED
    BY <1>0, <1>1, <2>1, <2>2 DEF Founds, Born, NoDoc
<1>5. \A m \in Players : Keeps(m)
  BY <1>0, <1>1, <1>4 DEF Keeps
<1>6. ASSUME NEW m \in Players, NEW q \in Players PROVE Roster(m, q)
  <2>1. OnlyBy(m, q) /\ Removals(m, q)
    BY <1>1 DEF OnlyBy, Removals
  <2>2. Placed(m, q)
    BY <1>0, <1>1 DEF Placed, NoDoc
  <2>3. ServerTold(m, q)
    BY <1>2 DEF ServerTold, Told, Puts, Lists
  <2>4. SeenTeam(m, q) = teamOf[q]
    BY <1>2 DEF SeenTeam
  <2>5. ASSUME NEW t \in Teams PROVE ~SeenMember(m, t, q)
    <3>1. SeenMember(m, t, q) = (q \in team[t].members)
      BY <1>2, Zenon DEF SeenMember
    <3>2. q \notin team[t].members
      BY <1>1 DEF NoDoc
    <3> QED
      BY <3>1, <3>2, Zenon
  <2>6. Agree(m, q)
    BY <1>0, <1>1, <2>4, <2>5 DEF Agree
  <2> QED
    BY <2>1, <2>2, <2>3, <2>6 DEF Roster
<1> QED
  BY <1>3, <1>5, <1>6, SoleFacts DEF RosterInv, Uninvited

LEMMA NextRoster == Inv /\ Inv' /\ RosterInv /\ [Next]_vars => RosterInv'
<1> SUFFICES ASSUME Inv, Inv', RosterInv, [Next]_vars PROVE RosterInv'
  OBVIOUS
<1>1. CASE UNCHANGED vars
  <2>1. CASE Uninvited = {}
    BY <1>1, <2>1 DEF vars, RosterInv, OneFounder, SignUps, Invited, Creates
  <2>2. CASE Uninvited # {}
    <3>1. PICK p \in Players : TRUE
      BY <2>2 DEF Uninvited
    <3> QED
      BY <1>1, <3>1, EndRoster DEF vars
  <2> QED
    BY <2>1, <2>2
<1>2. CASE Next
  <2>1. PICK p \in Players :
          \/ Deliver(p) \/ Reach(p) \/ Acknowledge(p) \/ Reconnect(p)
          \/ SignUp(p) \/ Relaunch(p) \/ StoreTeam(p)
          \/ Tab(p) \/ Add(p) \/ Remove(p)
          \/ \E t \in Teams : CreateTeam(p, t)
    BY <1>2 DEF Next
  <2>2. CASE Deliver(p) \/ Reach(p) \/ Acknowledge(p) \/ Reconnect(p)
    BY <2>2, WireShape, WireRosterInv
  <2>3. CASE SignUp(p)
    BY <2>3, SignUpRoster
  <2>4. CASE Relaunch(p) \/ StoreTeam(p) \/ Tab(p)
    BY <2>4, QuietSteps DEF Tab
  <2>5. CASE Add(p)
    BY <2>5, QuietSteps, MemberRoster DEF Add
  <2>6. CASE Remove(p)
    BY <2>6, QuietSteps, MemberRoster DEF Remove
  <2>7. CASE \E t \in Teams : CreateTeam(p, t)
    BY <2>7, CreateRoster
  <2> QED
    BY <2>1, <2>2, <2>3, <2>4, <2>5, <2>6, <2>7
<1> QED
  BY <1>1, <1>2

LEMMA RosterInvariance == Spec => [](Inv /\ RosterInv)
<1>1. Init => Inv /\ RosterInv
  BY InitInv, InitRoster
<1>2. (Inv /\ RosterInv) /\ [Next]_vars => (Inv /\ RosterInv)'
  <2>1. SUFFICES ASSUME Inv, RosterInv, [Next]_vars PROVE Inv' /\ RosterInv'
    OBVIOUS
  <2>2. Inv'
    BY <2>1, NextInv
  <2> QED
    BY <2>1, <2>2, NextRoster
<1> QED
  BY <1>1, <1>2, PTL DEF Spec

(* A manager whom no code told to anyone leads to keeps the team he has    *)
(* founded, in his document and on his phone: a late answer about the team *)
(* stored before, a listener, a relaunch or a resent write never brings    *)
(* back what was before, and the removal of anybody leaves him out.        *)
THEOREM ManagersKeepTeams == Spec => []ManagerKeepsTeam
<1>1. ASSUME Inv, RosterInv, NEW m \in Uninvited, NEW t \in Teams, SeenManager(m, t) = m
      PROVE  ud[m] = t /\ SeenTeam(m, m) = t
  <2>1. Founds(m, t)
    <3>1. CASE Pending(m, {"create"}, m, {t}) = {}
      BY <1>1, <3>1 DEF SeenManager, Founds, Born
    <3>2. CASE Pending(m, {"create"}, m, {t}) # {}
      <4>1. PICK i \in Pending(m, {"create"}, m, {t}) : TRUE
        BY <3>2
      <4>2. m \in Players
        BY DEF Uninvited
      <4>3. i \in 1 .. (Len(queue[m]) + 1) - 1 /\ Creates(m, i, t)
        BY <1>1, <4>1, <4>2, QueueTypes DEF Pending, Creates, Inv
      <4> QED
        BY <4>3 DEF Founds, Born
    <3> QED
      BY <3>1, <3>2
  <2> QED
    BY <1>1, <2>1, KeepsFacts
<1>2. Inv /\ RosterInv => ManagerKeepsTeam
  BY <1>1 DEF ManagerKeepsTeam
<1> QED
  BY RosterInvariance, <1>2, PTL

(* addTeamMember and deleteTeamMember write a player's team and the team's *)
(* list apart, after checks that are old by then; yet the two agree, as    *)
(* the only manager who can add the player sees them, whatever is unsent,  *)
(* resent or killed in between.                                            *)
THEOREM RostersAgree == Spec => []RosterAgrees
<1>1. Inv /\ RosterInv => RosterAgrees
  BY DEF RosterInv, Roster, Agree, RosterAgrees
<1> QED
  BY RosterInvariance, <1>1, PTL
=============================================================================
