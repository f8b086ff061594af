-------------------------- MODULE CompleteGameProofs --------------------------
(***************************************************************************)
(* Theorems about CompleteGame.tla and Standings.tla, for any reports,     *)
(* devices, teams and players: types, balanced records, no batch without   *)
(* its players, no game counted that was not reported, and the order of    *)
(* the Ranking tab.  They rest on ReportAssumption (in particular, teams   *)
(* are not players) and, the last, on TeamOrderAssumption; any number of   *)
(* reports may be made.                                                    *)
(***************************************************************************)
EXTENDS Standings, Positions, SequenceTheorems, FiniteSetTheorems, TLAPS

-----------------------------------------------------------------------------
(* What a device reads *)

(* A device reads the server's record or one it has written. *)
LEMMA SeenIs ==
  ASSUME TypeOK, NEW d \in Devices, NEW doc \in Docs
  PROVE  \/ Seen(d, doc) = record[doc]
         \/ \E i \in DOMAIN outbox[d] :
              outbox[d][i].puts[doc] # NotPut /\ Seen(d, doc) = outbox[d][i].puts[doc]
<1> DEFINE own == {i \in DOMAIN outbox[d] : outbox[d][i].puts[doc] # NotPut}
<1>1. Len(outbox[d]) \in Nat /\ DOMAIN outbox[d] = 1 .. Len(outbox[d])
  BY LenProperties DEF TypeOK
<1>2. CASE own = {}
  BY <1>2 DEF Seen
<1>3. CASE own # {}
  <2> DEFINE i == CHOOSE i \in own : \A j \in own : j <= i
  <2>1. own \in SUBSET (1 .. Len(outbox[d]))
    BY <1>1
  <2>2. i \in own
    <3> HIDE DEF own
    <3> QED
      BY <1>1, <1>3, <2>1, LastPlace
  <2>3. Seen(d, doc) = outbox[d][i].puts[doc]
    BY <1>3 DEF Seen
  <2> HIDE DEF i
  <2> QED
    BY <2>2, <2>3
<1> QED
  BY <1>2, <1>3

-----------------------------------------------------------------------------
(* The invariant *)

(* Every total that is stored, sent or about to be balances, and none that *)
(* was put into a batch is without a game.                                 *)
Fair(t)    == t.games = t.wins + t.losses
FairPut(x) == x = NotPut \/ (Fair(x) /\ x.games > 0)

Balances ==
  /\ Balanced
  /\ \A d \in Devices : \A b \in Sent(d) : \A doc \in Docs : FairPut(b.puts[doc])
  /\ \A r \in Reports : \A doc \in Docs : FairPut(report[r].puts[doc])

(* A call that may still commit has read a player or waits for his record,  *)
(* and waits for none once the group has been left by all.                  *)
Counts ==
  /\ \A r \in Reports : report[r].stage \in {"reading", "notified"} =>
       \A p \in Involved[GameOf[r]] : p \in report[r].waiting \/ report[r].puts[p] # NotPut
  /\ \A r \in Reports : report[r].stage = "notified" => report[r].waiting \cap Players = {}
  /\ PlayersCounted

Inv == TypeOK /\ Balances /\ Counts

-----------------------------------------------------------------------------
(* Sequences of batches *)

LEMMA OutboxAppend ==
  ASSUME TypeOK, NEW d \in Devices, NEW b \in Batch,
         outbox' = [outbox EXCEPT ![d] = Append(@, b)]
  PROVE  /\ outbox' \in [Devices -> Seq(Batch)]
         /\ \A e \in Devices : Len(outbox[e]) <= Len(outbox'[e])
         /\ \A e \in Devices : Sent(e)' \subseteq Sent(e) \cup {b}
<1>1. outbox[d] \in Seq(Batch)
  BY DEF TypeOK
<1>2. /\ Append(outbox[d], b) \in Seq(Batch)
      /\ Len(Append(outbox[d], b)) = Len(outbox[d]) + 1
      /\ \A i \in 1 .. Len(outbox[d]) : Append(outbox[d], b)[i] = outbox[d][i]
      /\ Append(outbox[d], b)[Len(outbox[d]) + 1] = b
      /\ Len(outbox[d]) \in Nat
      /\ DOMAIN outbox[d] = 1 .. Len(outbox[d])
  BY <1>1, AppendProperties, LenProperties
<1>3. DOMAIN Append(outbox[d], b) = 1 .. Len(outbox[d]) + 1
  BY <1>2, LenProperties
<1>4. outbox' \in [Devices -> Seq(Batch)]
  BY <1>2 DEF TypeOK
<1>5. outbox'[d] = Append(outbox[d], b) /\ \A e \in Devices \ {d} : outbox'[e] = outbox[e]
  BY DEF TypeOK
<1>6. ASSUME NEW i \in DOMAIN outbox'[d]
      PROVE  outbox'[d][i] \in Sent(d) \cup {b}
  BY <1>2, <1>3, <1>5 DEF Sent
<1>7. ASSUME NEW e \in Devices PROVE Sent(e)' \subseteq Sent(e) \cup {b}
  <2>1. CASE e = d
    BY <1>6, <2>1 DEF Sent
  <2>2. CASE e # d
    BY <1>5, <2>2 DEF Sent
  <2> QED
    BY <2>1, <2>2
<1>8. \A e \in Devices : Len(outbox[e]) <= Len(outbox'[e])
  <2>1. \A e \in Devices : Len(outbox[e]) \in Nat
    BY LenProperties DEF TypeOK
  <2>2. Len(outbox[d]) <= Len(outbox'[d])
    BY <1>2, <1>5
  <2> QED
    BY <1>5, <2>1, <2>2
<1> QED
  BY <1>4, <1>7, <1>8

LEMMA OutboxTail ==
  ASSUME TypeOK, NEW d \in Devices, outbox[d] # <<>>,
         outbox' = [outbox EXCEPT ![d] = Tail(@)]
  PROVE  /\ outbox' \in [Devices -> Seq(Batch)]
         /\ Head(outbox[d]) \in Sent(d) /\ Head(outbox[d]) \in Batch
         /\ Len(outbox'[d]) = Len(outbox[d]) - 1
         /\ \A e \in Devices \ {d} : outbox'[e] = outbox[e]
         /\ \A e \in Devices : Sent(e)' \subseteq Sent(e)
<1>1. outbox[d] \in Seq(Batch)
  BY DEF TypeOK
<1>2. /\ Head(outbox[d]) \in Batch
      /\ Tail(outbox[d]) \in Seq(Batch)
      /\ Len(Tail(outbox[d])) = Len(outbox[d]) - 1
      /\ \A i \in 1 .. Len(Tail(outbox[d])) : Tail(outbox[d])[i] = outbox[d][i + 1]
      /\ Len(outbox[d]) \in Nat /\ Len(outbox[d]) >= 1
      /\ DOMAIN outbox[d] = 1 .. Len(outbox[d])
  BY <1>1, HeadTailProperties, LenProperties, EmptySeq
<1>3. DOMAIN Tail(outbox[d]) = 1 .. Len(outbox[d]) - 1
  BY <1>2, LenProperties
<1>4. outbox' \in [Devices -> Seq(Batch)]
  BY <1>2 DEF TypeOK
<1>5. Head(outbox[d]) \in Sent(d)
  <2>1. Head(outbox[d]) = outbox[d][1]
    BY <1>1
  <2> QED
    BY <1>2, <2>1 DEF Sent
<1>6. outbox'[d] = Tail(outbox[d]) /\ \A e \in Devices \ {d} : outbox'[e] = outbox[e]
  BY DEF TypeOK
<1>7. ASSUME NEW i \in DOMAIN outbox'[d]
      PROVE  outbox'[d][i] \in Sent(d)
  <2>1. i \in 1 .. Len(outbox[d]) - 1
    BY <1>3, <1>6
  <2>2. outbox'[d][i] = outbox[d][i + 1]
    BY <1>2, <1>6, <2>1
  <2>3. i + 1 \in DOMAIN outbox[d]
    BY <1>2, <2>1
  <2> QED
    BY <2>2, <2>3 DEF Sent
<1>8. ASSUME NEW e \in Devices PROVE Sent(e)' \subseteq Sent(e)
  <2>1. CASE e = d
    BY <1>7, <2>1 DEF Sent
  <2>2. CASE e # d
    BY <1>6, <2>2 DEF Sent
  <2> QED
    BY <2>1, <2>2
<1> QED
  BY <1>2, <1>4, <1>5, <1>6, <1>8

LEMMA SentType ==
  ASSUME TypeOK, NEW d \in Devices
  PROVE  Sent(d) \subseteq Batch
  BY LenProperties, ElementOfSeq DEF TypeOK, Sent

-----------------------------------------------------------------------------
(* Reading a record into a batch *)

LEMMA PuttingPuts ==
  ASSUME TypeOK, Balances, NEW r \in Reports, NEW doc \in Docs
  PROVE  LET puts == Putting(r, doc)
         IN  /\ puts \in Puts
             /\ puts[doc] # NotPut
             /\ \A x \in Docs \ {doc} : puts[x] = report[r].puts[x]
             /\ \A x \in Docs : FairPut(puts[x])
<1> DEFINE t == Seen(ReportedBy[r], doc)
           w == Won(r, doc)
<1>1. ReportedBy[r] \in Devices
  BY ReportAssumption
<1>2. t \in Tally /\ Fair(t)
  <2>1. CASE t = record[doc]
    BY <2>1 DEF TypeOK, Balances, Balanced, Fair
  <2>2. ASSUME NEW b \in Sent(ReportedBy[r]), b.puts[doc] # NotPut, t = b.puts[doc]
        PROVE  t \in Tally /\ Fair(t)
    BY <1>1, <2>2, SentType DEF Batch, Puts, Balances, FairPut
  <2>3. CASE \E i \in DOMAIN outbox[ReportedBy[r]] :
               /\ outbox[ReportedBy[r]][i].puts[doc] # NotPut
               /\ t = outbox[ReportedBy[r]][i].puts[doc]
    <3>1. PICK i \in DOMAIN outbox[ReportedBy[r]] :
               /\ outbox[ReportedBy[r]][i].puts[doc] # NotPut
               /\ t = outbox[ReportedBy[r]][i].puts[doc]
      BY <2>3
    <3>2. outbox[ReportedBy[r]][i] \in Sent(ReportedBy[r])
      BY DEF Sent
    <3> HIDE DEF t
    <3> QED
      BY <2>2, <3>1, <3>2
  <2> QED
    BY <1>1, <2>1, <2>3, SeenIs
<1>3. Credit(t, w) \in Tally /\ Fair(Credit(t, w)) /\ Credit(t, w).games > 0
  <2> HIDE DEF t, w
  <2>1. CASE w
    BY <1>2, <2>1 DEF Credit, Tally, Fair
  <2>2. CASE ~w
    BY <1>2, <2>2 DEF Credit, Tally, Fair
  <2> QED
    BY <2>1, <2>2
<1>4. Credit(t, w) # NotPut
  BY <1>3, ReportAssumption DEF Tally
<1>5. report[r].puts \in Puts
  BY DEF TypeOK, Call
<1>6. Putting(r, doc) = [report[r].puts EXCEPT ![doc] = Credit(t, w)]
  BY DEF Putting
<1> HIDE DEF t, w
<1> QED
  BY <1>3, <1>4, <1>5, <1>6 DEF Puts, Balances, FairPut

-----------------------------------------------------------------------------
(* The steps *)

(* Steps of one call: its reads and its start touch no batch already sent. *)
LEMMA CallStep ==
  ASSUME Inv, NEW r \in Reports, NEW c \in Call,
         report' = [report EXCEPT ![r] = c],
         UNCHANGED <<record, result, outbox, sent, arrived>>,
         \A doc \in Docs : FairPut(c.puts[doc]),
         c.stage \in {"reading", "notified"} =>
           \A p \in Involved[GameOf[r]] : p \in c.waiting \/ c.puts[p] # NotPut,
         c.stage = "notified" => c.waiting \cap Players = {}
  PROVE  Inv'
<1>1. /\ report'[r] = c
      /\ \A q \in Reports \ {r} : report'[q] = report[q]
  BY DEF Inv, TypeOK
<1>2. TypeOK'
  BY DEF Inv, TypeOK
<1>3. Balances'
  BY <1>1 DEF Inv, Balances, Balanced, Sent, FairPut, Fair
<1>4. Counts'
  <2>1. PlayersCounted'
    BY DEF Inv, Counts, PlayersCounted, Sent
  <2> QED
    BY <1>1, <2>1 DEF Inv, Counts
<1> QED
  BY <1>2, <1>3, <1>4 DEF Inv

LEMMA ReportKeeps ==
  ASSUME Inv, NEW r \in Reports, Report(r)
  PROVE  Inv'
<1> DEFINE g == GameOf[r]
<1>1. PICK win \in BOOLEAN :
        report' = [report EXCEPT ![r] =
          [stage   |-> IF Involved[g] = {} THEN "notified" ELSE "reading",
           waiting |-> TeamsOf(r) \cup Involved[g],
           homeWin |-> win,
           puts    |-> NoPuts]]
  BY DEF Report
<1> DEFINE c == [stage   |-> IF Involved[g] = {} THEN "notified" ELSE "reading",
                 waiting |-> TeamsOf(r) \cup Involved[g],
                 homeWin |-> win,
                 puts    |-> NoPuts]
<1>2. /\ g \in Games /\ Involved[g] \in SUBSET Players /\ TeamsOf(r) \in SUBSET Teams
      /\ Teams \cap Players = {}
  BY ReportAssumption DEF TeamsOf
<1>3. NoPuts \in Puts /\ \A doc \in Docs : FairPut(NoPuts[doc])
  BY DEF NoPuts, Puts, FairPut
<1>4. c \in Call
  BY <1>2, <1>3 DEF Call, Stages, Docs
<1>5. c.stage = "notified" => c.waiting \cap Players = {}
  BY <1>2
<1>6. UNCHANGED <<record, result, outbox, sent, arrived>>
  BY DEF Report
<1>7. \A p \in Involved[g] : p \in c.waiting
  OBVIOUS
<1> HIDE DEF c
<1>8. report' = [report EXCEPT ![r] = c]
  BY <1>1 DEF c
<1>9. c.puts = NoPuts
  BY DEF c
<1> QED
  BY <1>3, <1>4, <1>5, <1>6, <1>7, <1>8, <1>9, CallStep

LEMMA ReadTeamKeeps ==
  ASSUME Inv, NEW r \in Reports, NEW t \in Teams, ReadTeam(r, t)
  PROVE  Inv'
<1>1. report[r] \in Call /\ t \in Docs
  BY DEF Inv, TypeOK, Docs
<1>2. PICK c \in Call :
        /\ report' = [report EXCEPT ![r] = c]
        /\ c.waiting = report[r].waiting \ {t}
        /\ c.stage = "notified" => c.waiting \cap Players = {}
        /\ \A x \in Docs : FairPut(c.puts[x])
        /\ \A x \in Docs :
             c.puts[x] # NotPut \/ (x # t /\ c.puts[x] = report[r].puts[x])
  <2> DEFINE w == report[r].waiting \ {t}
             q == Putting(r, t)
             e == [report[r] EXCEPT !.waiting = w, !.puts = q]
  <2>1. report' = [report EXCEPT ![r] = e]
    BY DEF Inv, TypeOK, ReadTeam
  <2>2. report[r].stage = "notified" => w \cap Players = {}
    BY DEF Inv, Counts
  <2>3. w \in SUBSET Docs /\ report[r].stage \in Stages
    BY <1>1 DEF Call, Stages
  <2>4. /\ q \in Puts /\ q[t] # NotPut
        /\ \A x \in Docs \ {t} : q[x] = report[r].puts[x]
        /\ \A x \in Docs : FairPut(q[x])
    BY <1>1, PuttingPuts DEF Inv
  <2>5. e \in Call /\ e.stage = report[r].stage /\ e.waiting = w /\ e.puts = q
    <3> HIDE DEF w, q
    <3> QED
      BY <1>1, <2>3, <2>4 DEF Call
  <2>6. e.stage = "notified" => e.waiting \cap Players = {}
    BY <2>2, <2>5
  <2>7. e.waiting = report[r].waiting \ {t}
    BY <2>5
  <2>8. e \in Call
    BY <2>5
  <2>9. \A x \in Docs : FairPut(e.puts[x])
    BY <2>4, <2>5
  <2>10. \A x \in Docs : e.puts[x] # NotPut \/ (x # t /\ e.puts[x] = report[r].puts[x])
    BY <2>4, <2>5
  <2> HIDE DEF e
  <2> QED
    BY <2>1, <2>6, <2>7, <2>8, <2>9, <2>10
<1>3. report[r].stage \in {"reading", "notified"}
  BY DEF ReadTeam
<1>4. UNCHANGED <<record, result, outbox, sent, arrived>>
  BY DEF ReadTeam
<1>5. ASSUME NEW x \in Involved[GameOf[r]]
      PROVE  x \in c.waiting \/ c.puts[x] # NotPut
  <2>1. x \in Docs
    BY ReportAssumption DEF Docs
  <2>2. x \in report[r].waiting \/ report[r].puts[x] # NotPut
    BY <1>3 DEF Inv, Counts
  <2> QED
    BY <1>2, <2>1, <2>2
<1> QED
  BY <1>2, <1>4, <1>5, CallStep

LEMMA ReadPlayerKeeps ==
  ASSUME Inv, NEW r \in Reports, NEW p \in Players, ReadPlayer(r, p)
  PROVE  Inv'
<1>1. report[r] \in Call /\ p \in Docs
  BY DEF Inv, TypeOK, Docs
<1>2. PICK c \in Call :
        /\ report' = [report EXCEPT ![r] = c]
        /\ c.waiting = report[r].waiting \ {p}
        /\ c.stage = "notified" => c.waiting \cap Players = {}
        /\ \A x \in Docs : FairPut(c.puts[x])
        /\ \A x \in Docs :
             c.puts[x] # NotPut \/ (x # p /\ c.puts[x] = report[r].puts[x])
  <2> DEFINE w == report[r].waiting \ {p}
             q == Putting(r, p)
             s == IF report[r].waiting \cap Players = {p} THEN "notified" ELSE report[r].stage
             e == [report[r] EXCEPT !.waiting = w, !.puts = q, !.stage = s]
  <2>1. report' = [report EXCEPT ![r] = e]
    BY DEF Inv, TypeOK, ReadPlayer
  <2>2. s = "notified" => w \cap Players = {}
    BY DEF Inv, Counts
  <2>3. w \in SUBSET Docs /\ s \in Stages
    BY <1>1 DEF Call, Stages
  <2>4. /\ q \in Puts /\ q[p] # NotPut
        /\ \A x \in Docs \ {p} : q[x] = report[r].puts[x]
        /\ \A x \in Docs : FairPut(q[x])
    BY <1>1, PuttingPuts DEF Inv
  <2>5. e \in Call /\ e.stage = s /\ e.waiting = w /\ e.puts = q
    <3> HIDE DEF w, q, s
    <3> QED
      BY <1>1, <2>3, <2>4 DEF Call
  <2>6. e.stage = "notified" => e.waiting \cap Players = {}
    BY <2>2, <2>5
  <2>7. e.waiting = report[r].waiting \ {p}
    BY <2>5
  <2>8. e \in Call
    BY <2>5
  <2>9. \A x \in Docs : FairPut(e.puts[x])
    BY <2>4, <2>5
  <2>10. \A x \in Docs : e.puts[x] # NotPut \/ (x # p /\ e.puts[x] = report[r].puts[x])
    BY <2>4, <2>5
  <2> HIDE DEF e
  <2> QED
    BY <2>1, <2>6, <2>7, <2>8, <2>9, <2>10
<1>3. report[r].stage \in {"reading", "notified"}
  BY DEF ReadPlayer
<1>4. UNCHANGED <<record, result, outbox, sent, arrived>>
  BY DEF ReadPlayer
<1>5. ASSUME NEW x \in Involved[GameOf[r]]
      PROVE  x \in c.waiting \/ c.puts[x] # NotPut
  <2>1. x \in Docs
    BY ReportAssumption DEF Docs
  <2>2. x \in report[r].waiting \/ report[r].puts[x] # NotPut
    BY <1>3 DEF Inv, Counts
  <2> QED
    BY <1>2, <2>1, <2>2
<1> QED
  BY <1>2, <1>4, <1>5, CallStep

LEMMA CommitKeeps ==
  ASSUME Inv, NEW r \in Reports, Commit(r)
  PROVE  Inv'
<1> DEFINE d == ReportedBy[r]
           b == [report |-> r, homeWin |-> report[r].homeWin, puts |-> report[r].puts]
<1>1. d \in Devices
  BY ReportAssumption
<1>2. report[r] \in Call /\ b \in Batch
  BY DEF Inv, TypeOK, Call, Batch
<1>3. outbox' = [outbox EXCEPT ![d] = Append(@, b)]
  BY DEF Commit
<1>4. /\ outbox' \in [Devices -> Seq(Batch)]
      /\ \A e \in Devices : Len(outbox[e]) <= Len(outbox'[e])
      /\ \A e \in Devices : Sent(e)' \subseteq Sent(e) \cup {b}
  <2> HIDE DEF b, d
  <2> QED
    BY <1>1, <1>2, <1>3, OutboxAppend DEF Inv
<1>5. /\ report'[r] = [report[r] EXCEPT !.stage = "committed"]
      /\ \A q \in Reports \ {r} : report'[q] = report[q]
      /\ report' \in [Reports -> Call]
  BY <1>2 DEF Inv, TypeOK, Commit, Call, Stages
<1>6. /\ report'[r].stage = "committed" /\ report'[r].puts = report[r].puts
  BY <1>2, <1>5 DEF Call
<1>7. TypeOK'
  <2>1. \A e \in Devices : sent'[e] <= Len(outbox'[e])
    BY <1>4, LenProperties DEF Inv, TypeOK, Commit
  <2> QED
    BY <1>4, <1>5, <2>1 DEF Inv, TypeOK, Commit
<1>8. \A doc \in Docs : FairPut(b.puts[doc])
  BY DEF Inv, Balances
<1>9. \A p \in Involved[GameOf[b.report]] : b.puts[p] # NotPut
  BY ReportAssumption DEF Inv, Counts, Commit
<1> HIDE DEF b
<1>10. Balances'
  <2>1. Balanced'
    BY DEF Inv, Balances, Balanced, Commit
  <2>2. ASSUME NEW e \in Devices, NEW x \in Sent(e)', NEW doc \in Docs
        PROVE  FairPut(x.puts[doc])
    BY <1>4, <1>8, <2>2 DEF Inv, Balances
  <2>3. ASSUME NEW q \in Reports, NEW doc \in Docs
        PROVE  FairPut(report'[q].puts[doc])
    BY <1>5, <1>6 DEF Inv, Balances
  <2> QED
    BY <2>1, <2>2, <2>3 DEF Balances, FairPut, Fair
<1>11. Counts'
  <2>1. ASSUME NEW e \in Devices, NEW x \in Sent(e)', NEW p \in Involved[GameOf[x.report]]
        PROVE  x.puts[p] # NotPut
    BY <1>4, <1>9, <2>1 DEF Inv, Counts, PlayersCounted
  <2>2. PlayersCounted'
    BY <2>1 DEF Inv, Counts, PlayersCounted, Commit
  <2>3. ASSUME NEW q \in Reports, report'[q].stage \in {"reading", "notified"}
        PROVE  report'[q] = report[q]
    BY <1>5, <1>6, <2>3
  <2> QED
    BY <2>2, <2>3 DEF Inv, Counts
<1> QED
  BY <1>7, <1>10, <1>11 DEF Inv

LEMMA StopKeeps ==
  ASSUME Inv, NEW d \in Devices, Stop(d), UNCHANGED <<record, result, outbox, sent, arrived>>
  PROVE  Inv'
<1>1. ASSUME NEW r \in Reports
      PROVE  /\ report'[r] \in Call
             /\ report'[r].puts = report[r].puts
             /\ \/ report'[r] = report[r]
                \/ report'[r].stage \in {"committed", "lost"}
  BY DEF Inv, TypeOK, Stop, Call, Stages
<1>2. report' \in [Reports -> Call]
  BY <1>1 DEF Stop
<1>3. TypeOK'
  BY <1>2 DEF Inv, TypeOK
<1>4. Balances'
  BY <1>1 DEF Inv, Balances, Balanced, Sent, FairPut, Fair
<1>5. Counts'
  <2>1. PlayersCounted'
    BY DEF Inv, Counts, PlayersCounted, Sent
  <2> QED
    BY <1>1, <2>1 DEF Inv, Counts
<1> QED
  BY <1>3, <1>4, <1>5 DEF Inv

(* Lengths, under which nothing else of a step of the client is seen. *)
LEMMA Lengths ==
  ASSUME TypeOK, NEW d \in Devices
  PROVE  /\ Len(outbox[d]) \in Nat /\ sent[d] \in Nat /\ sent[d] <= Len(outbox[d])
         /\ DOMAIN outbox[d] = 1 .. Len(outbox[d])
  BY LenProperties DEF TypeOK

LEMMA ArriveKeeps ==
  ASSUME Inv, NEW d \in Devices, NEW b \in Sent(d), Arrive(b),
         outbox' \in [Devices -> Seq(Batch)],
         sent' \in [Devices -> Nat],
         \A e \in Devices : sent'[e] <= Len(outbox'[e]),
         \A e \in Devices : Sent(e)' \subseteq Sent(e),
         report' = report
  PROVE  Inv'
<1>1. b \in Batch
  BY SentType DEF Inv
<1>2. /\ record' = [doc \in Docs |-> IF b.puts[doc] = NotPut THEN record[doc] ELSE b.puts[doc]]
      /\ result' = [result EXCEPT ![GameOf[b.report]] = IF b.homeWin THEN "home" ELSE "guest"]
      /\ arrived' = arrived \cup {b.report}
  BY DEF Arrive
<1>3. \A doc \in Docs : FairPut(b.puts[doc])
  BY DEF Inv, Balances
<1>4. TypeOK'
  <2>1. record' \in [Docs -> Tally]
    BY <1>1, <1>2 DEF Inv, TypeOK, Batch, Puts
  <2>2. result' \in [Games -> {"none", "home", "guest"}]
    BY <1>2 DEF Inv, TypeOK
  <2>3. arrived' \subseteq Reports
    BY <1>1, <1>2 DEF Inv, TypeOK, Batch
  <2> QED
    BY <2>1, <2>2, <2>3 DEF Inv, TypeOK
<1>5. Balances'
  <2>1. Balanced'
    BY <1>2, <1>3 DEF Inv, Balances, Balanced, FairPut, Fair
  <2> QED
    BY <2>1 DEF Inv, Balances, FairPut, Fair
<1>6. ASSUME NEW g \in Games, result'[g] # "none", NEW p \in Involved[g]
      PROVE  record'[p].games > 0
  <2>1. p \in Docs
    BY ReportAssumption DEF Docs
  <2>2. record'[p] = IF b.puts[p] = NotPut THEN record[p] ELSE b.puts[p]
    BY <1>2, <2>1
  <2>3. CASE b.puts[p] # NotPut
    BY <1>3, <2>1, <2>2, <2>3 DEF FairPut
  <2>4. CASE b.puts[p] = NotPut
    <3>1. g # GameOf[b.report]
      BY <2>4 DEF Inv, Counts, PlayersCounted
    <3>2. result[g] # "none"
      BY <1>2, <1>6, <3>1 DEF Inv, TypeOK
    <3>. QED  BY <2>2, <2>4, <3>2 DEF Inv, Counts, PlayersCounted
  <2>. QED  BY <2>3, <2>4
<1>7. Counts'
  BY <1>6 DEF Inv, Counts, PlayersCounted
<1> QED
  BY <1>4, <1>5, <1>7 DEF Inv

LEMMA DeliverKeeps ==
  ASSUME Inv, NEW d \in Devices, Deliver(d)
  PROVE  Inv'
<1>1. /\ outbox' \in [Devices -> Seq(Batch)]
      /\ Head(outbox[d]) \in Sent(d)
      /\ \A e \in Devices : Sent(e)' \subseteq Sent(e)
      /\ Len(outbox'[d]) = Len(outbox[d]) - 1
      /\ \A e \in Devices \ {d} : outbox'[e] = outbox[e]
  BY OutboxTail DEF Inv, Deliver
<1>2. sent' = sent /\ sent[d] = 0 /\ report' = report /\ Arrive(Head(outbox[d]))
  BY DEF Deliver
<1>3. \A e \in Devices : sent'[e] <= Len(outbox'[e])
  <2>1. 0 <= Len(outbox'[d])
    BY <1>1, LenProperties
  <2> QED
    BY <1>1, <1>2, <2>1 DEF Inv, TypeOK
<1>4. sent' \in [Devices -> Nat]
  BY <1>2 DEF Inv, TypeOK
<1> QED
  BY <1>1, <1>2, <1>3, <1>4, ArriveKeeps

LEMMA ReachKeeps ==
  ASSUME Inv, NEW d \in Devices, Reach(d)
  PROVE  Inv'
<1> DEFINE b == outbox[d][sent[d] + 1]
<1>1. sent[d] + 1 \in DOMAIN outbox[d]
  BY Lengths DEF Inv, Reach
<1>2. b \in Sent(d)
  BY <1>1 DEF Sent
<1>3. Arrive(b) /\ outbox' = outbox /\ report' = report
  BY DEF Reach
<1>4. /\ sent' \in [Devices -> Nat]
      /\ sent'[d] = sent[d] + 1 /\ \A e \in Devices \ {d} : sent'[e] = sent[e]
  BY DEF Inv, TypeOK, Reach
<1>5. \A e \in Devices : sent'[e] <= Len(outbox'[e])
  <2>1. sent[d] + 1 <= Len(outbox[d])
    BY Lengths DEF Inv, Reach
  <2> QED
    BY <1>3, <1>4, <2>1 DEF Inv, TypeOK
<1>6. outbox' \in [Devices -> Seq(Batch)] /\ \A e \in Devices : Sent(e)' \subseteq Sent(e)
  BY <1>3 DEF Inv, TypeOK, Sent
<1> HIDE DEF b
<1> QED
  BY <1>2, <1>3, <1>4, <1>5, <1>6, ArriveKeeps

(* A step of the client that brings the server nothing new. *)
LEMMA ClientStep ==
  ASSUME Inv, UNCHANGED <<record, result, report, arrived>>,
         outbox' \in [Devices -> Seq(Batch)],
         sent' \in [Devices -> Nat],
         \A e \in Devices : sent'[e] <= Len(outbox'[e]),
         \A e \in Devices : Sent(e)' \subseteq Sent(e)
  PROVE  Inv'
<1>1. TypeOK'
  BY DEF Inv, TypeOK
<1>2. Balances'
  BY DEF Inv, Balances, Balanced, FairPut, Fair
<1>3. Counts'
  BY DEF Inv, Counts, PlayersCounted
<1> QED
  BY <1>1, <1>2, <1>3 DEF Inv

LEMMA AcknowledgeKeeps ==
  ASSUME Inv, NEW d \in Devices, Acknowledge(d)
  PROVE  Inv'
<1>1. sent[d] > 0 /\ Len(outbox[d]) \in Nat /\ sent[d] \in Nat /\ sent[d] <= Len(outbox[d])
  BY Lengths DEF Inv, Acknowledge
<1>2. outbox[d] # <<>>
  BY <1>1
<1>3. /\ outbox' \in [Devices -> Seq(Batch)]
      /\ \A e \in Devices : Sent(e)' \subseteq Sent(e)
      /\ Len(outbox'[d]) = Len(outbox[d]) - 1
      /\ \A e \in Devices \ {d} : outbox'[e] = outbox[e]
  BY <1>2, OutboxTail DEF Inv, Acknowledge
<1>4. /\ sent' \in [Devices -> Nat]
      /\ sent'[d] = sent[d] - 1 /\ \A e \in Devices \ {d} : sent'[e] = sent[e]
  BY <1>1 DEF Inv, TypeOK, Acknowledge
<1>5. ASSUME NEW e \in Devices PROVE sent'[e] <= Len(outbox'[e])
  <2>1. CASE e = d
    BY <1>1, <1>3, <1>4, <2>1
  <2>2. CASE e # d
    BY <1>3, <1>4, <2>2 DEF Inv, TypeOK
  <2> QED
    BY <2>1, <2>2
<1>6. UNCHANGED <<record, result, report, arrived>>
  BY DEF Acknowledge
<1> QED
  BY <1>3, <1>4, <1>5, <1>6, ClientStep

LEMMA ReconnectKeeps ==
  ASSUME Inv, NEW d \in Devices, Reconnect(d)
  PROVE  Inv'
<1>1. /\ sent' \in [Devices -> Nat]
      /\ sent'[d] = 0 /\ \A e \in Devices \ {d} : sent'[e] = sent[e]
  BY DEF Inv, TypeOK, Reconnect
<1>2. UNCHANGED <<record, result, report, arrived>> /\ outbox' = outbox
  BY DEF Reconnect
<1>3. ASSUME NEW e \in Devices PROVE sent'[e] <= Len(outbox'[e])
  <2>1. CASE e = d
    BY <1>1, <1>2, <2>1, Lengths DEF Inv
  <2>2. CASE e # d
    BY <1>1, <1>2, <2>2 DEF Inv, TypeOK
  <2> QED
    BY <2>1, <2>2
<1>4. outbox' \in [Devices -> Seq(Batch)] /\ \A e \in Devices : Sent(e)' \subseteq Sent(e)
  BY <1>2 DEF Inv, TypeOK, Sent
<1> QED
  BY <1>1, <1>2, <1>3, <1>4, ClientStep

LEMMA InitInv == Init => Inv
<1> SUFFICES ASSUME Init PROVE Inv
  OBVIOUS
<1> USE DEF Init
<1>1. TypeOK
  <2>1. NoPuts \in Puts
    BY DEF NoPuts, Puts
  <2>2. [games |-> 0, wins |-> 0, losses |-> 0] \in Tally
    BY DEF Tally
  <2>3. [stage |-> "idle", waiting |-> {}, homeWin |-> FALSE, puts |-> NoPuts] \in Call
    BY <2>1 DEF Call, Stages
  <2>4. outbox \in [Devices -> Seq(Batch)]
    BY EmptySeq
  <2>5. sent \in [Devices -> Nat] /\ \A d \in Devices : sent[d] <= Len(outbox[d])
    BY EmptySeq
  <2> QED
    BY <2>2, <2>3, <2>4, <2>5 DEF TypeOK
<1>2. \A d \in Devices : Sent(d) = {}
  BY DEF Sent
<1>3. Balances
  BY <1>2 DEF Balances, Balanced, FairPut, NoPuts
<1>4. Counts
  BY <1>2 DEF Counts, PlayersCounted
<1> QED
  BY <1>1, <1>3, <1>4 DEF Inv

LEMMA NextInv == Inv /\ [Next]_vars => Inv'
<1> SUFFICES ASSUME Inv, [Next]_vars PROVE Inv'
  OBVIOUS
<1>1. ASSUME NEW r \in Reports, Report(r) PROVE Inv'
  BY <1>1, ReportKeeps
<1>2. ASSUME NEW r \in Reports, NEW t \in Teams, ReadTeam(r, t) PROVE Inv'
  BY <1>2, ReadTeamKeeps
<1>3. ASSUME NEW r \in Reports, NEW t \in Teams, ReadTeamTraps(r, t) PROVE Inv'
  BY <1>3, StopKeeps, ReportAssumption DEF ReadTeamTraps
<1>4. ASSUME NEW r \in Reports, NEW p \in Players, ReadPlayer(r, p) PROVE Inv'
  BY <1>4, ReadPlayerKeeps
<1>5. ASSUME NEW r \in Reports, Commit(r) PROVE Inv'
  BY <1>5, CommitKeeps
<1>6. ASSUME NEW d \in Devices, Deliver(d) PROVE Inv'
  BY <1>6, DeliverKeeps
<1>7. ASSUME NEW d \in Devices, Kill(d) PROVE Inv'
  BY <1>7, StopKeeps DEF Kill
<1>8. ASSUME NEW d \in Devices, Reach(d) PROVE Inv'
  BY <1>8, ReachKeeps
<1>9. ASSUME NEW d \in Devices, Acknowledge(d) PROVE Inv'
  BY <1>9, AcknowledgeKeeps
<1>10. ASSUME NEW d \in Devices, Reconnect(d) PROVE Inv'
  BY <1>10, ReconnectKeeps
<1>11. CASE UNCHANGED vars
  BY <1>11 DEF vars, Inv, TypeOK, Balances, Balanced, Counts, PlayersCounted, Sent, FairPut, Fair
<1> QED
  BY <1>1, <1>2, <1>3, <1>4, <1>5, <1>6, <1>7, <1>8, <1>9, <1>10, <1>11 DEF Next, Read

LEMMA Invariance == Spec => []Inv
  BY InitInv, NextInv, PTL DEF Spec

-----------------------------------------------------------------------------
(* Records, batches and calls keep their types. *)
THEOREM TypeCorrect == Spec => []TypeOK
<1>1. Inv => TypeOK
  BY DEF Inv
<1> QED
  BY Invariance, <1>1, PTL

(* However reports interleave, get lost or overwrite one another, in every *)
(* record the games are the wins and the losses.                           *)
THEOREM RecordsBalance == Spec => []Balanced
<1>1. Inv => Balanced
  BY DEF Inv, Balances
<1> QED
  BY Invariance, <1>1, PTL

(* No batch is committed without every player involved in its game, and a  *)
(* game with a result is in the record of each of them.                    *)
THEOREM PlayersAreCounted == Spec => []PlayersCounted
<1>1. Inv => PlayersCounted
  BY DEF Inv, Counts
<1> QED
  BY Invariance, <1>1, PTL
-----------------------------------------------------------------------------
(* Counting the games of a record.                                         *)
(*                                                                         *)
(* The number a batch puts into a record was read before, from the server  *)
(* or from a batch of the device that is older still.  It counts no more   *)
(* games than reports concern the record among those that have arrived and *)
(* those the device has committed up to that batch; arrivals only add to   *)
(* them, so that it is true still when the batch is applied, or applied    *)
(* once more.                                                              *)

Committed == {r \in Reports : report[r].stage = "committed"}

About(r) == TeamsOf(r) \cup Involved[GameOf[r]]

Earlier(d, i) == {outbox[d][j].report : j \in 1 .. i}

Known(d, i, doc) == {r \in arrived \cup Earlier(d, i) : doc \in About(r)}

Traced ==
  /\ IsFiniteSet(Committed)
  /\ arrived \subseteq Committed
  /\ \A d \in Devices : \A i \in DOMAIN outbox[d] : outbox[d][i].report \in Committed
  /\ \A d \in Devices : \A i \in 1 .. sent[d] : outbox[d][i].report \in arrived
  /\ \A r \in Reports : report[r].waiting \subseteq About(r)

Within(x, n) == x = NotPut \/ x.games <= n

KnownTo(r, doc) == Known(ReportedBy[r], Len(outbox[ReportedBy[r]]), doc)

(* A call that may still commit has read each record concerned, by itself  *)
(* not yet counted.                                                        *)
CallWithin(r, c) ==
  \A doc \in Docs : c.puts[doc] # NotPut =>
    doc \in About(r) /\ c.puts[doc].games <= Cardinality(KnownTo(r, doc)) + 1

BatchesWithin ==
  \A d \in Devices : \A i \in DOMAIN outbox[d] : \A doc \in Docs :
    Within(outbox[d][i].puts[doc], Cardinality(Known(d, i, doc)))

Bounded ==
  /\ NeverOvercounted
  /\ BatchesWithin
  /\ \A r \in Reports :
       report[r].stage \in {"reading", "notified"} => CallWithin(r, report[r])

CountInv == Inv /\ Traced /\ Bounded

LEMMA Smaller ==
  ASSUME NEW T, IsFiniteSet(T), NEW S, S \subseteq T
  PROVE  /\ IsFiniteSet(S) /\ Cardinality(S) \in Nat /\ Cardinality(T) \in Nat
         /\ Cardinality(S) <= Cardinality(T)
  BY FS_Subset, FS_CardinalityType

LEMMA KnownFinite ==
  ASSUME TypeOK, Traced, NEW d \in Devices, NEW i \in 0 .. Len(outbox[d]), NEW doc
  PROVE  /\ Known(d, i, doc) \subseteq Committed
         /\ IsFiniteSet(Known(d, i, doc)) /\ Cardinality(Known(d, i, doc)) \in Nat
         /\ Concerning(doc) \subseteq Known(d, i, doc)
         /\ Cardinality(Concerning(doc)) \in Nat
         /\ Cardinality(Concerning(doc)) <= Cardinality(Known(d, i, doc))
<1>1. Known(d, i, doc) \subseteq Committed
  <2>1. \A j \in 1 .. i : j \in DOMAIN outbox[d]
    BY Lengths
  <2> QED
    BY <2>1 DEF Known, Earlier, Traced
<1>2. Concerning(doc) \subseteq Known(d, i, doc)
  BY DEF Concerning, Known, About
<1>3. IsFiniteSet(Committed)
  BY DEF Traced
<1>4. IsFiniteSet(Known(d, i, doc)) /\ Cardinality(Known(d, i, doc)) \in Nat
  BY <1>1, <1>3, Smaller
<1>5. /\ Cardinality(Concerning(doc)) \in Nat
      /\ Cardinality(Concerning(doc)) <= Cardinality(Known(d, i, doc))
  BY <1>2, <1>4, Smaller
<1> QED
  BY <1>1, <1>2, <1>4, <1>5

LEMMA KnownMore ==
  ASSUME TypeOK, Traced, NEW d \in Devices, NEW i \in 0 .. Len(outbox[d]), NEW doc
  PROVE  Cardinality(Known(d, i, doc)) <= Cardinality(Known(d, Len(outbox[d]), doc))
<1>1. Len(outbox[d]) \in 0 .. Len(outbox[d]) /\ i <= Len(outbox[d]) /\ i \in Nat
  BY Lengths
<1>2. Known(d, i, doc) \subseteq Known(d, Len(outbox[d]), doc)
  BY <1>1, Lengths DEF Known, Earlier
<1>3. IsFiniteSet(Known(d, Len(outbox[d]), doc))
  BY <1>1, KnownFinite
<1> QED
  BY <1>2, <1>3, Smaller

-----------------------------------------------------------------------------
(* Calls *)

LEMMA PuttingWithin ==
  ASSUME CountInv, NEW r \in Reports, NEW doc \in Docs, doc \in report[r].waiting,
         report[r].stage \in {"reading", "notified"}
  PROVE  \A x \in Docs : Putting(r, doc)[x] # NotPut =>
           x \in About(r) /\ Putting(r, doc)[x].games <= Cardinality(KnownTo(r, x)) + 1
<1> DEFINE d == ReportedBy[r]
           t == Seen(d, doc)
<1>1. d \in Devices
  BY ReportAssumption
<1>2. TypeOK /\ Traced
  BY DEF CountInv, Inv
<1>3. Len(outbox[d]) \in 0 .. Len(outbox[d])
  BY <1>1, <1>2, Lengths
<1>4. /\ Cardinality(KnownTo(r, doc)) \in Nat
      /\ Cardinality(Concerning(doc)) \in Nat
      /\ Cardinality(Concerning(doc)) <= Cardinality(KnownTo(r, doc))
  BY <1>1, <1>2, <1>3, KnownFinite DEF KnownTo
<1>5. t.games \in Nat /\ t.games <= Cardinality(KnownTo(r, doc))
  <2>1. CASE t = record[doc]
    <3>1. record[doc].games \in Nat
      BY <1>2 DEF TypeOK, Tally
    <3>2. record[doc].games <= Cardinality(Concerning(doc))
      BY DEF CountInv, Bounded, NeverOvercounted
    <3> HIDE DEF t
    <3> QED
      BY <1>4, <2>1, <3>1, <3>2
  <2>2. CASE \E i \in DOMAIN outbox[d] :
               outbox[d][i].puts[doc] # NotPut /\ t = outbox[d][i].puts[doc]
    <3>1. PICK i \in DOMAIN outbox[d] :
               outbox[d][i].puts[doc] # NotPut /\ t = outbox[d][i].puts[doc]
      BY <2>2
    <3>2. outbox[d][i] \in Batch
      BY <1>1, <1>2, SentType DEF Sent
    <3>3. outbox[d][i].puts[doc] \in Tally
      BY <3>1, <3>2 DEF Batch, Puts
    <3>4. outbox[d][i].puts[doc].games <= Cardinality(Known(d, i, doc))
      BY <1>1, <3>1 DEF CountInv, Bounded, BatchesWithin, Within
    <3>5. i \in 0 .. Len(outbox[d])
      BY <1>1, <1>2, Lengths
    <3>6. /\ Cardinality(Known(d, i, doc)) \in Nat
          /\ Cardinality(Known(d, i, doc)) <= Cardinality(KnownTo(r, doc))
      BY <1>1, <1>2, <3>5, KnownFinite, KnownMore DEF KnownTo
    <3>7. outbox[d][i].puts[doc].games \in Nat
      BY <3>3 DEF Tally
    <3> HIDE DEF t, d
    <3> QED
      BY <1>4, <3>1, <3>4, <3>6, <3>7
  <2> QED
    BY <1>1, <1>2, <2>1, <2>2, SeenIs
<1>6. Credit(t, Won(r, doc)).games = t.games + 1
  BY DEF Credit
<1>7. report[r].puts \in Puts
  BY <1>2 DEF TypeOK, Call
<1>8. /\ Putting(r, doc)[doc].games = t.games + 1
      /\ \A x \in Docs \ {doc} : Putting(r, doc)[x] = report[r].puts[x]
  BY <1>6, <1>7 DEF Putting, Puts
<1>9. doc \in About(r)
  BY <1>2 DEF Traced
<1>10. CallWithin(r, report[r])
  BY DEF CountInv, Bounded
<1>11. Putting(r, doc)[doc].games <= Cardinality(KnownTo(r, doc)) + 1
  <2> HIDE DEF t
  <2> QED
    BY <1>4, <1>5, <1>8
<1> QED
  BY <1>8, <1>9, <1>10, <1>11 DEF CallWithin

(* Steps that only change one call, which is not committed. *)
LEMMA CallCounts ==
  ASSUME CountInv, NEW r \in Reports, NEW c,
         report' = [report EXCEPT ![r] = c],
         UNCHANGED <<record, result, outbox, sent, arrived>>,
         report[r].stage # "committed", c.stage # "committed",
         c.waiting \subseteq About(r),
         CallWithin(r, c)
  PROVE  Traced' /\ Bounded'
<1>1. /\ report'[r] = c
      /\ \A q \in Reports \ {r} : report'[q] = report[q]
  BY DEF CountInv, Inv, TypeOK
<1>2. Committed' = Committed
  BY <1>1 DEF Committed
<1>3. Traced'
  BY <1>1, <1>2 DEF CountInv, Traced, About, TeamsOf
<1>4. ASSUME NEW q \in Reports, report'[q].stage \in {"reading", "notified"}
      PROVE  CallWithin(q, report[q])' 
  <2>1. CASE q = r
    <3>1. \A doc : KnownTo(r, doc)' = KnownTo(r, doc)
      BY DEF KnownTo, Known, Earlier, About, TeamsOf
    <3>2. \A doc \in Docs : c.puts[doc] # NotPut =>
            doc \in About(r) /\ c.puts[doc].games <= Cardinality(KnownTo(r, doc)) + 1
      BY DEF CallWithin
    <3>3. \A doc \in Docs : report'[r].puts[doc] # NotPut =>
            /\ doc \in About(r)
            /\ report'[r].puts[doc].games <= Cardinality(KnownTo(r, doc)') + 1
      BY <1>1, <3>1, <3>2
    <3>4. CallWithin(r, report[r])'
      BY <3>3 DEF CallWithin, About, TeamsOf
    <3> QED
      BY <2>1, <3>4
  <2>2. CASE q # r
    <3>1. report'[q] = report[q] /\ CallWithin(q, report[q])
      BY <1>1, <1>4, <2>2 DEF CountInv, Bounded
    <3>2. \A doc : KnownTo(q, doc)' = KnownTo(q, doc)
      BY DEF KnownTo, Known, Earlier, About, TeamsOf
    <3> QED
      BY <3>1, <3>2 DEF CallWithin, About, TeamsOf
  <2> QED
    BY <2>1, <2>2
<1>5. NeverOvercounted' /\ BatchesWithin'
  BY DEF CountInv, Bounded, NeverOvercounted, BatchesWithin, Concerning, Known, Earlier,
         About, TeamsOf
<1> QED
  BY <1>3, <1>4, <1>5 DEF Bounded

LEMMA ReportCounts ==
  ASSUME CountInv, NEW r \in Reports, Report(r)
  PROVE  Traced' /\ Bounded'
<1>1. PICK win \in BOOLEAN :
        report' = [report EXCEPT ![r] =
          [stage   |-> IF Involved[GameOf[r]] = {} THEN "notified" ELSE "reading",
           waiting |-> TeamsOf(r) \cup Involved[GameOf[r]],
           homeWin |-> win,
           puts    |-> NoPuts]]
  BY DEF Report
<1> DEFINE c == [stage   |-> IF Involved[GameOf[r]] = {} THEN "notified" ELSE "reading",
                 waiting |-> TeamsOf(r) \cup Involved[GameOf[r]],
                 homeWin |-> win,
                 puts    |-> NoPuts]
<1>2. c.stage # "committed" /\ c.waiting \subseteq About(r)
  BY DEF About
<1>3. CallWithin(r, c)
  BY DEF CallWithin, NoPuts
<1>4. report[r].stage # "committed" /\ UNCHANGED <<record, result, outbox, sent, arrived>>
  BY DEF Report
<1> HIDE DEF c
<1>5. report' = [report EXCEPT ![r] = c]
  BY <1>1 DEF c
<1> QED
  BY <1>2, <1>3, <1>4, <1>5, CallCounts

LEMMA ReadTeamCounts ==
  ASSUME CountInv, NEW r \in Reports, NEW t \in Teams, ReadTeam(r, t)
  PROVE  Traced' /\ Bounded'
<1> DEFINE q == Putting(r, t)
           c == [report[r] EXCEPT !.waiting = @ \ {t}, !.puts = q]
<1>1. report[r] \in Call /\ t \in Docs /\ t \in report[r].waiting
  BY DEF CountInv, Inv, TypeOK, Docs, ReadTeam
<1>2. report[r].stage \in {"reading", "notified"} /\ UNCHANGED <<record, result, outbox, sent, arrived>>
  BY DEF ReadTeam
<1>3. report' = [report EXCEPT ![r] = c]
  BY DEF CountInv, Inv, TypeOK, ReadTeam
<1>4. c.stage = report[r].stage /\ c.puts = q /\ c.waiting \subseteq report[r].waiting
  <2> HIDE DEF q
  <2> QED
    BY <1>1 DEF Call
<1> HIDE DEF c
<1>5. CallWithin(r, c)
  BY <1>1, <1>2, <1>4, PuttingWithin DEF CallWithin
<1>6. c.waiting \subseteq About(r)
  BY <1>4 DEF CountInv, Traced
<1>7. report[r].stage # "committed" /\ c.stage # "committed"
  BY <1>2, <1>4
<1> QED
  BY <1>2, <1>3, <1>5, <1>6, <1>7, CallCounts

LEMMA ReadPlayerCounts ==
  ASSUME CountInv, NEW r \in Reports, NEW p \in Players, ReadPlayer(r, p)
  PROVE  Traced' /\ Bounded'
<1> DEFINE q == Putting(r, p)
           s == IF report[r].waiting \cap Players = {p} THEN "notified" ELSE report[r].stage
           c == [report[r] EXCEPT !.waiting = @ \ {p}, !.puts = q, !.stage = s]
<1>1. report[r] \in Call /\ p \in Docs /\ p \in report[r].waiting
  BY DEF CountInv, Inv, TypeOK, Docs, ReadPlayer
<1>2. report[r].stage \in {"reading", "notified"} /\ UNCHANGED <<record, result, outbox, sent, arrived>>
  BY DEF ReadPlayer
<1>3. report' = [report EXCEPT ![r] = c]
  BY DEF CountInv, Inv, TypeOK, ReadPlayer
<1>4. c.stage = s /\ c.puts = q /\ c.waiting \subseteq report[r].waiting
  <2> HIDE DEF q, s
  <2> QED
    BY <1>1 DEF Call
<1>5. s # "committed"
  BY <1>2
<1> HIDE DEF c, s
<1>6. CallWithin(r, c)
  BY <1>1, <1>2, <1>4, PuttingWithin DEF CallWithin
<1>7. c.waiting \subseteq About(r)
  BY <1>4 DEF CountInv, Traced
<1>8. report[r].stage # "committed" /\ c.stage # "committed"
  BY <1>2, <1>4, <1>5
<1> QED
  BY <1>2, <1>3, <1>6, <1>7, <1>8, CallCounts

LEMMA StopCounts ==
  ASSUME CountInv, NEW d \in Devices, Stop(d), UNCHANGED <<record, result, outbox, sent, arrived>>
  PROVE  Traced' /\ Bounded'
<1>1. ASSUME NEW r \in Reports
      PROVE  /\ report'[r].puts = report[r].puts
             /\ report'[r].waiting \subseteq report[r].waiting
             /\ report'[r].stage = "committed" <=> report[r].stage = "committed"
             /\ report'[r].stage \in {"reading", "notified"} => report'[r] = report[r]
  BY DEF CountInv, Inv, TypeOK, Stop, Call, Stages
<1>2. Committed' = Committed
  BY <1>1 DEF Committed
<1>3. Traced'
  BY <1>1, <1>2 DEF CountInv, Traced, About, TeamsOf
<1>4. ASSUME NEW q \in Reports, report'[q].stage \in {"reading", "notified"}
      PROVE  CallWithin(q, report[q])'
  BY <1>1, <1>4 DEF CountInv, Bounded, CallWithin, KnownTo, Known, Earlier, About, TeamsOf
<1>5. NeverOvercounted' /\ BatchesWithin'
  BY DEF CountInv, Bounded, NeverOvercounted, BatchesWithin, Concerning, Known, Earlier,
         About, TeamsOf
<1> QED
  BY <1>3, <1>4, <1>5 DEF Bounded

-----------------------------------------------------------------------------
(* What is known at one position is known at another, later on. *)
LEMMA KnownGrows ==
  ASSUME TypeOK', Traced', NEW d \in Devices, NEW i, NEW j \in 0 .. Len(outbox'[d]), NEW doc,
         arrived \cup Earlier(d, i) \subseteq arrived' \cup Earlier(d, j)'
  PROVE  /\ Cardinality(Known(d, i, doc)) \in Nat
         /\ Cardinality(Known(d, j, doc)') \in Nat
         /\ Cardinality(Known(d, i, doc)) <= Cardinality(Known(d, j, doc)')
<1>1. DOMAIN outbox'[d] = 1 .. Len(outbox'[d]) /\ Len(outbox'[d]) \in Nat
  BY LenProperties DEF TypeOK
<1>2. \A k \in 1 .. j : k \in DOMAIN outbox'[d]
  BY <1>1
<1>3. Known(d, j, doc)' \subseteq Committed'
  BY <1>2 DEF Known, Earlier, Traced
<1>4. Known(d, i, doc) \subseteq Known(d, j, doc)'
  BY DEF Known, About, TeamsOf
<1>5. IsFiniteSet(Committed')
  BY DEF Traced
<1>6. IsFiniteSet(Known(d, j, doc)') /\ Cardinality(Known(d, j, doc)') \in Nat
  BY <1>3, <1>5, Smaller
<1> QED
  BY <1>4, <1>6, Smaller

(* Batches and calls are within what is known if no batch of the next state *)
(* is new and each finds there what was known to it before.                 *)
LEMMA ClientCounts ==
  ASSUME CountInv, Inv', Traced', NeverOvercounted', report' = report,
         \A e \in Devices : \A j \in DOMAIN outbox'[e] : \E i \in DOMAIN outbox[e] :
           /\ outbox'[e][j] = outbox[e][i]
           /\ arrived \cup Earlier(e, i) \subseteq arrived' \cup Earlier(e, j)',
         \A e \in Devices : arrived \cup Earlier(e, Len(outbox[e]))
                              \subseteq arrived' \cup Earlier(e, Len(outbox[e]))'
  PROVE  Bounded'
<1>1. \A e \in Devices : Len(outbox'[e]) \in Nat /\ DOMAIN outbox'[e] = 1 .. Len(outbox'[e])
  BY LenProperties DEF Inv, TypeOK
<1>2. ASSUME NEW e \in Devices, NEW j \in DOMAIN outbox'[e], NEW doc \in Docs
      PROVE  Within(outbox'[e][j].puts[doc], Cardinality(Known(e, j, doc)'))
  <2>1. PICK i \in DOMAIN outbox[e] :
           /\ outbox'[e][j] = outbox[e][i]
           /\ arrived \cup Earlier(e, i) \subseteq arrived' \cup Earlier(e, j)'
    OBVIOUS
  <2>2. j \in 0 .. Len(outbox'[e])
    BY <1>1
  <2>3. /\ Cardinality(Known(e, i, doc)) \in Nat
        /\ Cardinality(Known(e, j, doc)') \in Nat
        /\ Cardinality(Known(e, i, doc)) <= Cardinality(Known(e, j, doc)')
    BY <2>1, <2>2, KnownGrows DEF Inv
  <2>4. Within(outbox[e][i].puts[doc], Cardinality(Known(e, i, doc)))
    BY DEF CountInv, Bounded, BatchesWithin
  <2>5. outbox[e][i].puts[doc] = NotPut \/ outbox[e][i].puts[doc].games \in Nat
    <3>1. outbox[e][i] \in Batch
      BY SentType DEF CountInv, Inv, Sent
    <3>2. outbox[e][i].puts[doc] \in Tally \cup {NotPut}
      BY <3>1 DEF Batch, Puts
    <3> QED
      BY <3>2 DEF Tally
  <2> QED
    BY <2>1, <2>3, <2>4, <2>5 DEF Within
<1>3. BatchesWithin'
  BY <1>2 DEF BatchesWithin, Within
<1>4. ASSUME NEW q \in Reports, report[q].stage \in {"reading", "notified"}, NEW doc \in Docs,
             report[q].puts[doc] # NotPut
      PROVE  /\ doc \in About(q)
             /\ report[q].puts[doc].games <= Cardinality(KnownTo(q, doc)') + 1
  <2> DEFINE e == ReportedBy[q]
             n == Len(outbox[e])
  <2> PICK m : m = Len(outbox'[e])
    OBVIOUS
  <2>1. e \in Devices
    BY ReportAssumption
  <2>2. m \in 0 .. m
    BY <1>1, <2>1
  <2>3. arrived \cup Earlier(e, n) \subseteq arrived' \cup Earlier(e, m)'
    BY <2>1 DEF Earlier
  <2>4. /\ Cardinality(Known(e, n, doc)) \in Nat
        /\ Cardinality(Known(e, m, doc)') \in Nat
        /\ Cardinality(Known(e, n, doc)) <= Cardinality(Known(e, m, doc)')
    BY <2>1, <2>2, <2>3, KnownGrows DEF Inv
  <2>5. /\ doc \in About(q)
        /\ report[q].puts[doc].games <= Cardinality(Known(e, n, doc)) + 1
    BY <1>4 DEF CountInv, Bounded, CallWithin, KnownTo
  <2>6. report[q].puts[doc].games \in Nat
    <3>1. report[q].puts[doc] \in Tally \cup {NotPut}
      BY DEF CountInv, Inv, TypeOK, Call, Puts
    <3> QED
      BY <1>4, <3>1 DEF Tally
  <2>7. KnownTo(q, doc)' = Known(e, m, doc)'
    BY DEF KnownTo, Known, Earlier, About, TeamsOf
  <2> HIDE DEF e, n
  <2> QED
    BY <2>4, <2>5, <2>6, <2>7
<1>5. \A q \in Reports :
         report'[q].stage \in {"reading", "notified"} => CallWithin(q, report[q])'
  BY <1>4 DEF CallWithin, About, TeamsOf
<1> QED
  BY <1>3, <1>5 DEF Bounded


(* The server applies a batch after all the older ones of its device. *)
LEMMA ArriveCounts ==
  ASSUME CountInv, NEW d \in Devices, NEW i \in DOMAIN outbox[d], Arrive(outbox[d][i]),
         \A j \in 1 .. i : outbox[d][j].report \in arrived',
         arrived' \subseteq Committed
  PROVE  NeverOvercounted'
<1>1. ASSUME NEW doc \in Docs
      PROVE  record'[doc].games <= Cardinality(Concerning(doc)')
  <2>1. TypeOK /\ Traced
    BY DEF CountInv, Inv
  <2>2. i \in 0 .. Len(outbox[d])
    BY <2>1, Lengths
  <2>3. IsFiniteSet(Committed) /\ Concerning(doc)' \subseteq Committed
    BY <2>1 DEF Traced, Concerning
  <2>4. IsFiniteSet(Concerning(doc)') /\ Cardinality(Concerning(doc)') \in Nat
    BY <2>3, Smaller
  <2>5. record'[doc] = IF outbox[d][i].puts[doc] = NotPut THEN record[doc]
                       ELSE outbox[d][i].puts[doc]
    BY DEF Arrive
  <2>6. CASE outbox[d][i].puts[doc] = NotPut
    <3>1. Concerning(doc) \subseteq Concerning(doc)'
      BY DEF Concerning, TeamsOf, Arrive
    <3>2. /\ Cardinality(Concerning(doc)) \in Nat
          /\ Cardinality(Concerning(doc)) <= Cardinality(Concerning(doc)')
      BY <2>4, <3>1, Smaller
    <3>3. record[doc].games \in Nat /\ record[doc].games <= Cardinality(Concerning(doc))
      BY <2>1 DEF CountInv, Bounded, NeverOvercounted, TypeOK, Tally
    <3> QED
      BY <2>4, <2>5, <2>6, <3>2, <3>3
  <2>7. CASE outbox[d][i].puts[doc] # NotPut
    <3>1. Known(d, i, doc) \subseteq Concerning(doc)'
      BY DEF Known, Earlier, Concerning, About, TeamsOf, Arrive
    <3>2. /\ Cardinality(Known(d, i, doc)) \in Nat
          /\ Cardinality(Known(d, i, doc)) <= Cardinality(Concerning(doc)')
      BY <2>4, <3>1, Smaller
    <3>3. Within(outbox[d][i].puts[doc], Cardinality(Known(d, i, doc)))
      BY DEF CountInv, Bounded, BatchesWithin
    <3>4. outbox[d][i].puts[doc].games \in Nat
      <4>1. outbox[d][i] \in Batch
        BY <2>1, SentType DEF Sent
      <4>2. outbox[d][i].puts[doc] \in Tally
        BY <2>7, <4>1 DEF Batch, Puts
      <4> QED
        BY <4>2 DEF Tally
    <3> QED
      BY <2>4, <2>5, <2>7, <3>2, <3>3, <3>4 DEF Within
  <2> QED
    BY <2>6, <2>7
<1> QED
  BY <1>1 DEF NeverOvercounted

LEMMA TailPositions ==
  ASSUME TypeOK, NEW d \in Devices, outbox[d] # <<>>,
         outbox' = [outbox EXCEPT ![d] = Tail(@)]
  PROVE  /\ Len(outbox[d]) \in Nat /\ Len(outbox[d]) >= 1
         /\ DOMAIN outbox[d] = 1 .. Len(outbox[d])
         /\ Head(outbox[d]) = outbox[d][1]
         /\ Len(outbox'[d]) = Len(outbox[d]) - 1
         /\ DOMAIN outbox'[d] = 1 .. Len(outbox[d]) - 1
         /\ \A j \in 1 .. Len(outbox[d]) - 1 : outbox'[d][j] = outbox[d][j + 1]
         /\ \A e \in Devices \ {d} : outbox'[e] = outbox[e]
<1>1. outbox[d] \in Seq(Batch)
  BY DEF TypeOK
<1>2. /\ Tail(outbox[d]) \in Seq(Batch)
      /\ Len(Tail(outbox[d])) = Len(outbox[d]) - 1
      /\ \A j \in 1 .. Len(Tail(outbox[d])) : Tail(outbox[d])[j] = outbox[d][j + 1]
      /\ Len(outbox[d]) \in Nat /\ Len(outbox[d]) >= 1
      /\ DOMAIN outbox[d] = 1 .. Len(outbox[d])
  BY <1>1, HeadTailProperties, LenProperties, EmptySeq
<1>3. DOMAIN Tail(outbox[d]) = 1 .. Len(outbox[d]) - 1
  BY <1>2, LenProperties
<1>4. outbox'[d] = Tail(outbox[d]) /\ \A e \in Devices \ {d} : outbox'[e] = outbox[e]
  BY DEF TypeOK
<1>5. Head(outbox[d]) = outbox[d][1]
  BY <1>1
<1> QED
  BY <1>2, <1>3, <1>4, <1>5

(* The oldest batch leaves, applied now or before. *)
LEMMA TailCounts ==
  ASSUME CountInv, Inv', Traced', NeverOvercounted', report' = report,
         NEW d \in Devices, outbox[d] # <<>>,
         outbox' = [outbox EXCEPT ![d] = Tail(@)],
         arrived \subseteq arrived', outbox[d][1].report \in arrived'
  PROVE  Bounded'
<1>1. /\ Len(outbox[d]) \in Nat /\ Len(outbox[d]) >= 1
      /\ DOMAIN outbox[d] = 1 .. Len(outbox[d])
      /\ Len(outbox'[d]) = Len(outbox[d]) - 1
      /\ DOMAIN outbox'[d] = 1 .. Len(outbox[d]) - 1
      /\ \A j \in 1 .. Len(outbox[d]) - 1 : outbox'[d][j] = outbox[d][j + 1]
      /\ \A e \in Devices \ {d} : outbox'[e] = outbox[e]
  BY TailPositions DEF CountInv, Inv
<1>2. ASSUME NEW j \in 0 .. Len(outbox[d]) - 1
      PROVE  arrived \cup Earlier(d, j + 1) \subseteq arrived' \cup Earlier(d, j)'
  <2>1. ASSUME NEW k \in 1 .. j + 1
        PROVE  outbox[d][k].report \in arrived' \cup Earlier(d, j)'
    <3>1. CASE k = 1
      BY <3>1
    <3>2. CASE k # 1
      <4>1. PICK m \in 1 .. j : k = m + 1
        BY <3>2
      <4>2. outbox'[d][m] = outbox[d][k]
        BY <1>1, <4>1
      <4>3. outbox'[d][m].report \in Earlier(d, j)'
        BY DEF Earlier
      <4> QED
        BY <4>2, <4>3
    <3> QED
      BY <3>1, <3>2
  <2> QED
    BY <2>1 DEF Earlier
<1>3. ASSUME NEW e \in Devices, NEW j \in DOMAIN outbox'[e]
      PROVE  \E i \in DOMAIN outbox[e] :
               /\ outbox'[e][j] = outbox[e][i]
               /\ arrived \cup Earlier(e, i) \subseteq arrived' \cup Earlier(e, j)'
  <2>1. CASE e = d
    <3>1. /\ j \in 1 .. Len(outbox[d]) - 1 /\ j \in 0 .. Len(outbox[d]) - 1
          /\ j + 1 \in DOMAIN outbox[d]
      BY <1>1, <2>1
    <3> QED
      BY <1>1, <1>2, <2>1, <3>1
  <2>2. CASE e # d
    BY <1>1, <2>2 DEF Earlier
  <2> QED
    BY <2>1, <2>2
<1>4. ASSUME NEW e \in Devices
      PROVE  arrived \cup Earlier(e, Len(outbox[e]))
             \subseteq arrived' \cup Earlier(e, Len(outbox[e]))'
  <2>1. CASE e = d
    <3>1. PICK m \in 0 .. Len(outbox[d]) - 1 :
             m = Len(outbox[d]) - 1 /\ m = Len(outbox'[d]) /\ m + 1 = Len(outbox[d])
      BY <1>1
    <3>2. arrived \cup Earlier(d, m + 1) \subseteq arrived' \cup Earlier(d, m)'
      BY <1>2
    <3>3. Earlier(d, Len(outbox[d]))' = Earlier(d, m)'
      BY <3>1 DEF Earlier
    <3>4. Earlier(d, Len(outbox[d])) = Earlier(d, m + 1)
      BY <3>1 DEF Earlier
    <3>5. arrived \cup Earlier(d, Len(outbox[d])) \subseteq arrived' \cup Earlier(d, Len(outbox[d]))'
      BY <3>2, <3>3, <3>4
    <3> QED
      BY <2>1, <3>5
  <2>2. CASE e # d
    BY <1>1, <2>2 DEF Earlier
  <2> QED
    BY <2>1, <2>2
<1> QED
  BY <1>3, <1>4, ClientCounts

LEMMA DeliverCounts ==
  ASSUME CountInv, Inv', NEW d \in Devices, Deliver(d)
  PROVE  Traced' /\ Bounded'
<1>1. /\ outbox[d] # <<>> /\ outbox' = [outbox EXCEPT ![d] = Tail(@)]
      /\ sent' = sent /\ sent[d] = 0 /\ report' = report /\ Arrive(Head(outbox[d]))
  BY DEF Deliver
<1>2. /\ Len(outbox[d]) \in Nat /\ Len(outbox[d]) >= 1
      /\ DOMAIN outbox[d] = 1 .. Len(outbox[d])
      /\ Head(outbox[d]) = outbox[d][1]
      /\ DOMAIN outbox'[d] = 1 .. Len(outbox[d]) - 1
      /\ \A j \in 1 .. Len(outbox[d]) - 1 : outbox'[d][j] = outbox[d][j + 1]
      /\ \A e \in Devices \ {d} : outbox'[e] = outbox[e]
  BY <1>1, TailPositions DEF CountInv, Inv
<1>3. arrived' = arrived \cup {outbox[d][1].report} /\ outbox[d][1].report \in Committed
  BY <1>1, <1>2 DEF Arrive, CountInv, Traced
<1>4. Committed' = Committed
  BY <1>1 DEF Committed
<1>5. Traced'
  <2>1. ASSUME NEW e \in Devices, NEW j \in DOMAIN outbox'[e]
        PROVE  outbox'[e][j].report \in Committed
    BY <1>2 DEF CountInv, Traced
  <2>2. ASSUME NEW e \in Devices, NEW j \in 1 .. sent'[e]
        PROVE  outbox'[e][j].report \in arrived'
    BY <1>1, <1>2, <1>3 DEF CountInv, Traced
  <2> QED
    BY <1>1, <1>3, <1>4, <2>1, <2>2 DEF CountInv, Traced, About, TeamsOf
<1>6. NeverOvercounted'
  BY <1>1, <1>2, <1>3, ArriveCounts DEF CountInv, Traced
<1> QED
  BY <1>1, <1>3, <1>5, <1>6, TailCounts

LEMMA AcknowledgeCounts ==
  ASSUME CountInv, Inv', NEW d \in Devices, Acknowledge(d)
  PROVE  Traced' /\ Bounded'
<1>1. /\ sent[d] > 0 /\ sent[d] \in Nat /\ sent[d] <= Len(outbox[d])
      /\ Len(outbox[d]) \in Nat
  BY Lengths DEF CountInv, Inv, Acknowledge
<1>2. outbox[d] # <<>>
  BY <1>1
<1>3. /\ outbox' = [outbox EXCEPT ![d] = Tail(@)]
      /\ sent'[d] = sent[d] - 1 /\ \A e \in Devices \ {d} : sent'[e] = sent[e]
      /\ UNCHANGED <<record, result, report, arrived>>
  BY DEF CountInv, Inv, TypeOK, Acknowledge
<1>4. /\ DOMAIN outbox[d] = 1 .. Len(outbox[d])
      /\ DOMAIN outbox'[d] = 1 .. Len(outbox[d]) - 1
      /\ \A j \in 1 .. Len(outbox[d]) - 1 : outbox'[d][j] = outbox[d][j + 1]
      /\ \A e \in Devices \ {d} : outbox'[e] = outbox[e]
  BY <1>2, <1>3, TailPositions DEF CountInv, Inv
<1>5. outbox[d][1].report \in arrived
  BY <1>1 DEF CountInv, Traced
<1>6. Committed' = Committed
  BY <1>3 DEF Committed
<1>7. Traced'
  <2>1. ASSUME NEW e \in Devices, NEW j \in DOMAIN outbox'[e]
        PROVE  outbox'[e][j].report \in Committed
    BY <1>4 DEF CountInv, Traced
  <2>2. ASSUME NEW e \in Devices, NEW j \in 1 .. sent'[e]
        PROVE  outbox'[e][j].report \in arrived
    <3>1. CASE e = d
      <4>1. j \in 1 .. Len(outbox[d]) - 1 /\ j + 1 \in 1 .. sent[d]
        BY <1>1, <1>3, <3>1
      <4>2. outbox[d][j + 1].report \in arrived
        BY <4>1 DEF CountInv, Traced
      <4> QED
        BY <1>4, <3>1, <4>1, <4>2
    <3>2. CASE e # d
      BY <1>3, <1>4, <3>2 DEF CountInv, Traced
    <3> QED
      BY <3>1, <3>2
  <2> QED
    BY <1>3, <1>6, <2>1, <2>2 DEF CountInv, Traced, About, TeamsOf
<1>8. NeverOvercounted'
  BY <1>3 DEF CountInv, Bounded, NeverOvercounted, Concerning, TeamsOf
<1> QED
  BY <1>2, <1>3, <1>5, <1>7, <1>8, TailCounts

(* A batch is applied and stays in the outbox. *)
LEMMA ReachCounts ==
  ASSUME CountInv, Inv', NEW d \in Devices, Reach(d)
  PROVE  Traced' /\ Bounded'
<1> DEFINE n == sent[d] + 1
<1>1. n \in DOMAIN outbox[d] /\ sent[d] \in Nat
  BY Lengths DEF CountInv, Inv, Reach
<1>2. /\ outbox' = outbox /\ report' = report /\ Arrive(outbox[d][n])
      /\ sent'[d] = n /\ \A e \in Devices \ {d} : sent'[e] = sent[e]
  BY DEF CountInv, Inv, TypeOK, Reach
<1>3. arrived' = arrived \cup {outbox[d][n].report} /\ outbox[d][n].report \in Committed
  BY <1>1, <1>2 DEF Arrive, CountInv, Traced
<1>4. Committed' = Committed
  BY <1>2 DEF Committed
<1>5. \A j \in 1 .. n : outbox[d][j].report \in arrived'
  <2>1. ASSUME NEW j \in 1 .. n PROVE j = n \/ j \in 1 .. sent[d]
    BY <1>1
  <2> HIDE DEF n
  <2> QED
    BY <1>3, <2>1 DEF CountInv, Traced
<1>6. Traced'
  <2>1. ASSUME NEW e \in Devices, NEW j \in 1 .. sent'[e]
        PROVE  outbox'[e][j].report \in arrived'
    <3> HIDE DEF n
    <3>1. CASE e = d
      BY <1>2, <1>5, <3>1
    <3>2. CASE e # d
      BY <1>2, <1>3, <3>2 DEF CountInv, Traced
    <3> QED
      BY <3>1, <3>2
  <2> QED
    BY <1>2, <1>3, <1>4, <2>1 DEF CountInv, Traced, About, TeamsOf
<1>7. NeverOvercounted'
  <2> HIDE DEF n
  <2>1. arrived' \subseteq Committed
    BY <1>3 DEF CountInv, Traced
  <2> QED
    BY <1>1, <1>2, <1>5, <2>1, ArriveCounts
<1>8. Bounded'
  BY <1>2, <1>3, <1>6, <1>7, ClientCounts DEF Earlier
<1> QED
  BY <1>6, <1>8

LEMMA ReconnectCounts ==
  ASSUME CountInv, Inv', NEW d \in Devices, Reconnect(d)
  PROVE  Traced' /\ Bounded'
<1>1. /\ sent'[d] = 0 /\ \A e \in Devices \ {d} : sent'[e] = sent[e]
      /\ UNCHANGED <<record, result, outbox, report, arrived>>
  BY DEF CountInv, Inv, TypeOK, Reconnect
<1>2. Traced'
  <2>1. \A e \in Devices : \A j \in 1 .. sent'[e] : j \in 1 .. sent[e]
    BY <1>1
  <2>2. Committed' = Committed
    BY <1>1 DEF Committed
  <2> QED
    BY <1>1, <2>1, <2>2 DEF CountInv, Traced, About, TeamsOf
<1>3. NeverOvercounted'
  BY <1>1 DEF CountInv, Bounded, NeverOvercounted, Concerning, TeamsOf
<1>4. Bounded'
  BY <1>1, <1>2, <1>3, ClientCounts DEF Earlier
<1> QED
  BY <1>2, <1>4


LEMMA CommitCounts ==
  ASSUME CountInv, Inv', NEW r \in Reports, Commit(r)
  PROVE  Traced' /\ Bounded'
<1> DEFINE d == ReportedBy[r]
           b == [report |-> r, homeWin |-> report[r].homeWin, puts |-> report[r].puts]
<1>1. d \in Devices /\ TypeOK /\ Traced
  BY ReportAssumption DEF CountInv, Inv
<1>2. /\ report[r] \in Call /\ report[r].stage = "notified"
      /\ b \in Batch /\ b.report = r /\ b.puts = report[r].puts
  BY DEF CountInv, Inv, TypeOK, Call, Batch, Commit
<1>3. /\ outbox' = [outbox EXCEPT ![d] = Append(@, b)]
      /\ UNCHANGED <<record, result, sent, arrived>>
  BY DEF Commit
<1>4. /\ report'[r].stage = "committed"
      /\ \A q \in Reports \ {r} : report'[q] = report[q]
      /\ report'[r].waiting = report[r].waiting
  BY <1>2 DEF CountInv, Inv, TypeOK, Commit, Call
<1>5. PICK n \in Nat : n = Len(outbox[d]) /\ DOMAIN outbox[d] = 1 .. n
  BY <1>1, Lengths
<1> HIDE DEF b, d
<1>6. /\ DOMAIN outbox'[d] = 1 .. n + 1 /\ Len(outbox'[d]) = n + 1
      /\ \A j \in 1 .. n : outbox'[d][j] = outbox[d][j]
      /\ outbox'[d][n + 1] = b
      /\ \A e \in Devices \ {d} : outbox'[e] = outbox[e]
  <2>1. outbox[d] \in Seq(Batch)
    BY <1>1 DEF TypeOK
  <2>2. outbox'[d] = Append(outbox[d], b) /\ \A e \in Devices \ {d} : outbox'[e] = outbox[e]
    BY <1>1, <1>3 DEF TypeOK
  <2>3. /\ Append(outbox[d], b) \in Seq(Batch)
        /\ Len(Append(outbox[d], b)) = Len(outbox[d]) + 1
        /\ \A i \in 1 .. Len(outbox[d]) : Append(outbox[d], b)[i] = outbox[d][i]
        /\ Append(outbox[d], b)[Len(outbox[d]) + 1] = b
    BY <1>2, <2>1, AppendProperties
  <2>4. DOMAIN Append(outbox[d], b) = 1 .. n + 1
    BY <1>5, <2>3, LenProperties
  <2> QED
    BY <1>5, <2>2, <2>3, <2>4
<1>7. Committed' = Committed \cup {r} /\ r \notin Committed /\ IsFiniteSet(Committed')
  <2>1. Committed' = Committed \cup {r} /\ r \notin Committed
    BY <1>2, <1>4 DEF Committed
  <2> QED
    BY <1>1, <2>1, FS_AddElement DEF Traced
<1>8. Traced'
  <2>1. ASSUME NEW e \in Devices, NEW j \in DOMAIN outbox'[e]
        PROVE  outbox'[e][j].report \in Committed'
    <3>1. CASE e = d /\ j = n + 1
      BY <1>2, <1>6, <1>7, <3>1
    <3>2. CASE e = d /\ j # n + 1
      <4>1. j \in 1 .. n
        BY <1>5, <1>6, <3>2
      <4> QED
        BY <1>1, <1>5, <1>6, <1>7, <3>2, <4>1 DEF Traced
    <3>3. CASE e # d
      BY <1>1, <1>6, <1>7, <3>3 DEF Traced
    <3> QED
      BY <3>1, <3>2, <3>3
  <2>2. ASSUME NEW e \in Devices, NEW j \in 1 .. sent'[e]
        PROVE  outbox'[e][j].report \in arrived'
    <3>1. j \in DOMAIN outbox[e] /\ outbox[e][j].report \in arrived
      BY <1>1, <1>3, Lengths DEF Traced
    <3>2. outbox'[e][j] = outbox[e][j]
      BY <1>5, <1>6, <3>1
    <3> QED
      BY <1>3, <3>1, <3>2
  <2>3. \A q \in Reports : report'[q].waiting = report[q].waiting
    BY <1>4
  <2> QED
    BY <1>1, <1>3, <1>7, <2>1, <2>2, <2>3 DEF Traced, About, TeamsOf
<1>9. NeverOvercounted'
  BY <1>3 DEF CountInv, Bounded, NeverOvercounted, Concerning, TeamsOf
<1>10. \A e \in Devices : Len(outbox'[e]) \in Nat /\ DOMAIN outbox'[e] = 1 .. Len(outbox'[e])
  BY LenProperties DEF Inv, TypeOK
<1>11. ASSUME NEW e \in Devices, NEW j \in DOMAIN outbox[e]
       PROVE  /\ Earlier(e, j) = Earlier(e, j)'
              /\ outbox'[e][j] = outbox[e][j] /\ j \in 0 .. Len(outbox'[e])
  <2>1. CASE e = d
    <3>1. j \in 1 .. n /\ \A i \in 1 .. j : i \in 1 .. n
      BY <1>5, <2>1
    <3> QED
      BY <1>5, <1>6, <2>1, <3>1 DEF Earlier
  <2>2. CASE e # d
    BY <1>6, <1>10, <2>2 DEF Earlier
  <2> QED
    BY <2>1, <2>2
<1>12. ASSUME NEW e \in Devices, NEW j \in DOMAIN outbox[e], NEW doc \in Docs
       PROVE  Within(outbox'[e][j].puts[doc], Cardinality(Known(e, j, doc)'))
  <2>1. Earlier(e, j) = Earlier(e, j)' /\ outbox'[e][j] = outbox[e][j]
    BY <1>11
  <2>2. Known(e, j, doc)' = Known(e, j, doc)
    BY <1>3, <2>1 DEF Known, About, TeamsOf
  <2>3. Within(outbox[e][j].puts[doc], Cardinality(Known(e, j, doc)))
    BY DEF CountInv, Bounded, BatchesWithin
  <2> QED
    BY <2>1, <2>2, <2>3
<1>13. ASSUME NEW doc \in Docs
       PROVE  Within(b.puts[doc], Cardinality(Known(d, n + 1, doc)'))
  <2>1. Earlier(d, n + 1)' = Earlier(d, n) \cup {r}
    <3>1. \A i \in 1 .. n + 1 : i = n + 1 \/ i \in 1 .. n
      BY <1>5
    <3>2. \A i \in 1 .. n : i \in 1 .. n + 1
      BY <1>5
    <3>3. n + 1 \in 1 .. n + 1
      BY <1>5
    <3> QED
      BY <1>2, <1>6, <3>1, <3>2, <3>3 DEF Earlier
  <2>2. CASE b.puts[doc] # NotPut
    <3>1. /\ doc \in About(r)
          /\ b.puts[doc].games <= Cardinality(Known(d, n, doc)) + 1
      BY <1>2, <1>5, <2>2 DEF CountInv, Bounded, CallWithin, KnownTo, d
    <3>3. Known(d, n + 1, doc)' = Known(d, n, doc) \cup {r}
      BY <1>3, <2>1, <3>1 DEF Known, About, TeamsOf
    <3>4. n \in 0 .. Len(outbox[d])
      BY <1>5
    <3>5. /\ Known(d, n, doc) \subseteq Committed /\ IsFiniteSet(Known(d, n, doc))
          /\ Cardinality(Known(d, n, doc)) \in Nat
      BY <1>1, <3>4, KnownFinite
    <3>6. Cardinality(Known(d, n, doc) \cup {r}) = Cardinality(Known(d, n, doc)) + 1
      BY <1>7, <3>5, FS_AddElement
    <3> QED
      BY <3>1, <3>3, <3>6 DEF Within
  <2> QED
    BY <2>2 DEF Within
<1>14. BatchesWithin'
  <2>1. ASSUME NEW e \in Devices, NEW j \in DOMAIN outbox'[e], NEW doc \in Docs
        PROVE  Within(outbox'[e][j].puts[doc], Cardinality(Known(e, j, doc)'))
    <3>1. CASE e = d /\ j = n + 1
      BY <1>6, <1>13, <3>1
    <3>2. CASE e # d \/ j # n + 1
      <4>1. j \in DOMAIN outbox[e]
        BY <1>5, <1>6, <3>2
      <4> QED
        BY <1>12, <4>1
    <3> QED
      BY <3>1, <3>2
  <2> QED
    BY <2>1 DEF BatchesWithin, Within
<1>15. ASSUME NEW q \in Reports, report'[q].stage \in {"reading", "notified"}
       PROVE  CallWithin(q, report[q])'
  <2>1. q # r /\ report'[q] = report[q] /\ report[q].stage \in {"reading", "notified"}
    BY <1>4, <1>15
  <2> DEFINE e == ReportedBy[q]
  <2>2. e \in Devices
    BY ReportAssumption
  <2> HIDE DEF e
  <2>3. PICK m \in Nat : m = Len(outbox'[e])
    BY <1>10, <2>2
  <2>4. Earlier(e, Len(outbox[e])) \subseteq Earlier(e, m)'
    <3>1. \A k \in 1 .. Len(outbox[e]) : k \in 1 .. m /\ outbox'[e][k] = outbox[e][k]
      <4>1. CASE e = d
        BY <1>5, <1>6, <2>3, <4>1
      <4>2. CASE e # d
        BY <1>6, <2>2, <2>3, <4>2
      <4> QED
        BY <4>1, <4>2
    <3> QED
      BY <3>1 DEF Earlier
  <2>5. ASSUME NEW doc \in Docs, report[q].puts[doc] # NotPut
        PROVE  /\ doc \in About(q)
               /\ report[q].puts[doc].games <= Cardinality(KnownTo(q, doc)') + 1
    <3>1. arrived \cup Earlier(e, Len(outbox[e])) \subseteq arrived' \cup Earlier(e, m)'
      BY <1>3, <2>4
    <3>2. /\ Cardinality(Known(e, Len(outbox[e]), doc)) \in Nat
          /\ Cardinality(Known(e, m, doc)') \in Nat
          /\ Cardinality(Known(e, Len(outbox[e]), doc)) <= Cardinality(Known(e, m, doc)')
      <4>1. TypeOK'
        BY DEF Inv
      <4>2. m \in 0 .. Len(outbox'[e])
        BY <2>3
      <4> QED
        BY <1>8, <2>2, <3>1, <4>1, <4>2, KnownGrows
    <3>3. /\ doc \in About(q)
          /\ report[q].puts[doc].games <= Cardinality(Known(e, Len(outbox[e]), doc)) + 1
      BY <2>1, <2>5 DEF CountInv, Bounded, CallWithin, KnownTo, e
    <3>4. KnownTo(q, doc)' = Known(e, m, doc)'
      BY <2>3 DEF KnownTo, Known, Earlier, About, TeamsOf, e
    <3>5. report[q].puts[doc].games \in Nat
      <4>1. report[q].puts[doc] \in Tally \cup {NotPut}
        BY <1>1 DEF TypeOK, Call, Puts
      <4> QED
        BY <2>5, <4>1 DEF Tally
    <3> QED
      BY <3>2, <3>3, <3>4, <3>5
  <2> QED
    BY <2>1, <2>5 DEF CallWithin, About, TeamsOf
<1> QED
  BY <1>8, <1>9, <1>14, <1>15 DEF Bounded

LEMMA InitCounts == Init => CountInv
<1> SUFFICES ASSUME Init PROVE CountInv
  OBVIOUS
<1>1. Inv
  BY InitInv
<1>2. Committed = {}
  BY DEF Init, Committed
<1>3. IsFiniteSet(Committed) /\ Cardinality({}) = 0
  BY <1>2, FS_EmptySet
<1>4. \A d \in Devices : DOMAIN outbox[d] = {}
  BY DEF Init
<1>5. Traced
  BY <1>2, <1>3, <1>4 DEF Init, Traced
<1>6. NeverOvercounted
  <2>1. \A doc \in Docs : Concerning(doc) = {}
    BY DEF Init, Concerning
  <2>2. \A doc \in Docs : record[doc].games = 0
    BY DEF Init
  <2> QED
    BY <1>3, <2>1, <2>2 DEF NeverOvercounted
<1>7. Bounded
  BY <1>4, <1>6 DEF Init, Bounded, BatchesWithin
<1> QED
  BY <1>1, <1>5, <1>7 DEF CountInv

LEMMA NextCounts == CountInv /\ [Next]_vars => CountInv'
<1> SUFFICES ASSUME CountInv, [Next]_vars PROVE CountInv'
  OBVIOUS
<1>1. Inv'
  BY NextInv DEF CountInv
<1>2. ASSUME NEW r \in Reports, Report(r) PROVE CountInv'
  BY <1>1, <1>2, ReportCounts DEF CountInv
<1>3. ASSUME NEW r \in Reports, NEW t \in Teams, ReadTeam(r, t) PROVE CountInv'
  BY <1>1, <1>3, ReadTeamCounts DEF CountInv
<1>4. ASSUME NEW r \in Reports, NEW t \in Teams, ReadTeamTraps(r, t) PROVE CountInv'
  BY <1>1, <1>4, StopCounts, ReportAssumption DEF ReadTeamTraps, CountInv
<1>5. ASSUME NEW r \in Reports, NEW p \in Players, ReadPlayer(r, p) PROVE CountInv'
  BY <1>1, <1>5, ReadPlayerCounts DEF CountInv
<1>6. ASSUME NEW r \in Reports, Commit(r) PROVE CountInv'
  BY <1>1, <1>6, CommitCounts DEF CountInv
<1>7. ASSUME NEW d \in Devices, Kill(d) PROVE CountInv'
  BY <1>1, <1>7, StopCounts DEF Kill, CountInv
<1>8. ASSUME NEW d \in Devices, Deliver(d) PROVE CountInv'
  BY <1>1, <1>8, DeliverCounts DEF CountInv
<1>9. ASSUME NEW d \in Devices, Reach(d) PROVE CountInv'
  BY <1>1, <1>9, ReachCounts DEF CountInv
<1>10. ASSUME NEW d \in Devices, Acknowledge(d) PROVE CountInv'
  BY <1>1, <1>10, AcknowledgeCounts DEF CountInv
<1>11. ASSUME NEW d \in Devices, Reconnect(d) PROVE CountInv'
  BY <1>1, <1>11, ReconnectCounts DEF CountInv
<1>12. CASE UNCHANGED vars
  <2>1. UNCHANGED <<record, outbox, sent, report, arrived>>
    BY <1>12 DEF vars
  <2>2. Committed' = Committed
    BY <2>1 DEF Committed
  <2>3. Traced'
    BY <2>1, <2>2 DEF CountInv, Traced, About, TeamsOf
  <2>4. NeverOvercounted'
    BY <2>1 DEF CountInv, Bounded, NeverOvercounted, Concerning, TeamsOf
  <2>5. Bounded'
    BY <1>1, <2>1, <2>3, <2>4, ClientCounts DEF Earlier
  <2> QED
    BY <1>1, <2>3, <2>5 DEF CountInv
<1> QED
  BY <1>2, <1>3, <1>4, <1>5, <1>6, <1>7, <1>8, <1>9, <1>10, <1>11, <1>12 DEF Next, Read

(* However many devices report, retry, get killed and overwrite one         *)
(* another's numbers, no record counts more games than reports about them   *)
(* have reached the server.                                                 *)
THEOREM NeverOvercounts == Spec => []NeverOvercounted
<1>1. CountInv => NeverOvercounted
  BY DEF CountInv, Bounded
<1> QED
  BY InitCounts, NextCounts, <1>1, PTL DEF Spec

-----------------------------------------------------------------------------
(* The listing of the Ranking tab.                                         *)
(*                                                                         *)
(* One insertion keeps the rows ranked: the team that goes in is ahead of  *)
(* every row after its place and not ahead of the row before it, and if    *)
(* that row has played, the rows it is ranked with are not below the new   *)
(* one either, since percentages compare transitively.  The listing is a   *)
(* fold of insertions; the function of sets of positions that a fold is  *)
(* defined by exists up to every position (RanksExist), so that it has     *)
(* the values its description says, and the rows are ranked after the      *)
(* first k teams for every k.                                              *)

(* Percentages, compared without dividing, are compared transitively. *)
LEMMA RatioTrans ==
  ASSUME NEW wi \in Nat, NEW gi \in Nat, NEW wm \in Nat, NEW gm \in Nat,
         NEW wt \in Nat, NEW gt \in Nat,
         gm > 0, wm * gi <= wi * gm, wt * gm <= wm * gt
  PROVE  wt * gi <= wi * gt
<1>1. \A x, y, z \in Nat : x <= y => x * z <= y * z
  OBVIOUS
<1>2. \A x, y, z \in Nat : z > 0 /\ x * z <= y * z => x <= y
  OBVIOUS
<1>3. \A x, y \in Nat : x * y \in Nat
  OBVIOUS
<1>4. (wt * gm) * gi <= (wm * gt) * gi
  BY <1>1, <1>3
<1>5. (wm * gi) * gt <= (wi * gm) * gt
  BY <1>1, <1>3
<1>6. /\ (wm * gt) * gi = (wm * gi) * gt
      /\ (wt * gm) * gi = (wt * gi) * gm
      /\ (wi * gm) * gt = (wi * gt) * gm
  OBVIOUS
<1>7. (wt * gi) * gm <= (wi * gt) * gm
  BY <1>3, <1>4, <1>5, <1>6
<1>. QED  BY <1>2, <1>3, <1>7

-----------------------------------------------------------------------------
(* One insertion *)

(* t may stand before u, as device d sees them. *)
NotBelow(d, t, u) ==
  Seen(d, u).wins * Seen(d, t).games <= Seen(d, t).wins * Seen(d, u).games

Ranked(d, rows) ==
  \A i, j \in 1 .. Len(rows) :
    (i < j /\ \A k \in i .. j : Played(d, rows[k])) => NotBelow(d, rows[i], rows[j])

(* Where t goes in. *)
Spot(d, rows, t, p, new) ==
  /\ p \in 1 .. (Len(rows) + 1)
  /\ new \in Seq(Teams) /\ Len(new) = Len(rows) + 1
  /\ \A i \in 1 .. (p - 1) : new[i] = rows[i]
  /\ new[p] = t
  /\ \A i \in p .. Len(rows) : new[i + 1] = rows[i] /\ Ahead(d, t, rows[i])
  /\ p > 1 => ~Ahead(d, t, rows[p - 1])

LEMMA SeenTally ==
  ASSUME TypeOK, NEW d \in Devices, NEW t \in Teams
  PROVE  Seen(d, t).wins \in Nat /\ Seen(d, t).games \in Nat
<1>1. t \in Docs /\ record[t] \in Tally
  BY DEF Docs, TypeOK
<1>2. CASE Seen(d, t) = record[t]
  BY <1>1, <1>2 DEF Tally
<1>3. ASSUME NEW i \in DOMAIN outbox[d], outbox[d][i].puts[t] # NotPut,
             Seen(d, t) = outbox[d][i].puts[t]
      PROVE  Seen(d, t) \in Tally
  <2>1. outbox[d][i] \in Batch
    BY LenProperties, ElementOfSeq DEF TypeOK
  <2>. QED  BY <1>1, <1>3, <2>1 DEF Batch, Puts
<1>4. Seen(d, t) \in Tally
  BY <1>1, <1>2, <1>3, SeenIs
<1>. QED  BY <1>4 DEF Tally

LEMMA InsertAtIs ==
  ASSUME NEW s, NEW i, NEW e
  PROVE  InsertAt(s, i, e) = SubSeq(s, 1, i - 1) \o <<e>> \o SubSeq(s, i, Len(s))
BY DEF InsertAt

LEMMA InsertedSpot ==
  ASSUME NEW d \in Devices, NEW rows \in Seq(Teams), NEW t \in Teams
  PROVE  \E p : Spot(d, rows, t, p, Inserted(d, rows, t))
<1>. PICK n \in Nat : n = Len(rows)
  BY LenProperties
<1>. DEFINE stops == {i \in DOMAIN rows : ~Ahead(d, t, rows[i])}
<1>1. DOMAIN rows = 1 .. n
  BY LenProperties
<1>2. PICK S : S = stops \cup {0}
  OBVIOUS
<1>3. S \subseteq 0 .. n /\ S # {}
  BY <1>1, <1>2
<1>4. PICK m : m = Max(S)
  OBVIOUS
<1>5. m \in S /\ \A i \in S : i <= m
  BY <1>3, <1>4, GreatestUpTo
<1>6. m \in 0 .. n /\ (m > 0 => ~Ahead(d, t, rows[m]))
  BY <1>2, <1>3, <1>5
<1>7. ASSUME NEW i \in 1 .. n, m < i PROVE Ahead(d, t, rows[i])
  BY <1>1, <1>2, <1>5, <1>6, <1>7
<1>8. PICK A : A = SubSeq(rows, 1, m)
  OBVIOUS
<1>9. PICK B : B = SubSeq(rows, m + 1, n)
  OBVIOUS
<1>10. A \in Seq(Teams) /\ Len(A) = m /\ \A i \in 1 .. m : A[i] = rows[i]
  BY <1>6, <1>8, SubSeqProperties
<1>11. B \in Seq(Teams) /\ Len(B) = n - m /\ \A i \in 1 .. (n - m) : B[i] = rows[m + i]
  BY <1>6, <1>9, SubSeqProperties
<1>12. PICK C : C = A \o <<t>>
  OBVIOUS
<1>13. <<t>> \in Seq(Teams) /\ Len(<<t>>) = 1 /\ <<t>>[1] = t
  OBVIOUS
<1>14. /\ C \in Seq(Teams) /\ Len(C) = m + 1
       /\ \A i \in 1 .. m : C[i] = rows[i]
       /\ C[m + 1] = t
  <2>1. /\ C \in Seq(Teams) /\ Len(C) = Len(A) + Len(<<t>>)
        /\ \A i \in 1 .. Len(A) + Len(<<t>>) :
             C[i] = IF i <= Len(A) THEN A[i] ELSE <<t>>[i - Len(A)]
    BY <1>10, <1>12, <1>13, ConcatProperties
  <2>. QED  BY <1>6, <1>10, <1>13, <2>1
<1>15. PICK new : new = C \o B
  OBVIOUS
<1>16. /\ new \in Seq(Teams) /\ Len(new) = n + 1
       /\ \A i \in 1 .. (m + 1) : new[i] = C[i]
       /\ \A i \in 1 .. (n - m) : new[m + 1 + i] = B[i]
  <2>1. /\ new \in Seq(Teams) /\ Len(new) = Len(C) + Len(B)
        /\ \A i \in 1 .. Len(C) + Len(B) :
             new[i] = IF i <= Len(C) THEN C[i] ELSE B[i - Len(C)]
    BY <1>11, <1>14, <1>15, ConcatProperties
  <2>2. \A i \in 1 .. (n - m) : (m + 1 + i) - (m + 1) = i
    BY <1>6
  <2>3. Len(new) = n + 1
    <3>1. (m + 1) + (n - m) = n + 1
      BY <1>6
    <3>. QED  BY <1>11, <1>14, <2>1, <3>1
  <2>5. ASSUME NEW i \in 1 .. (m + 1) PROVE new[i] = C[i]
    <3>1. i \in 1 .. Len(C) + Len(B) /\ i <= Len(C)
      BY <1>6, <1>11, <1>14
    <3>. QED  BY <2>1, <3>1
  <2>4. ASSUME NEW i \in 1 .. (n - m) PROVE new[m + 1 + i] = B[i]
    <3>1. m + 1 + i \in 1 .. Len(C) + Len(B) /\ ~(m + 1 + i <= Len(C))
      BY <1>6, <1>11, <1>14
    <3>2. new[m + 1 + i] = B[(m + 1 + i) - Len(C)]
      BY <2>1, <3>1
    <3>. QED  BY <1>14, <2>2, <3>2
  <2>. QED  BY <2>1, <2>3, <2>4, <2>5
<1>17. new = Inserted(d, rows, t)
  <2>1. PICK p : p = m + 1
    OBVIOUS
  <2>2. PICK q : q = p - 1
    OBVIOUS
  <2>3. q = m
    BY <1>6, <2>1, <2>2
  <2>4. Inserted(d, rows, t) = InsertAt(rows, Max(stops \cup {0}) + 1, t)
    BY Zenon DEF Inserted
  <2>5. Max(stops \cup {0}) + 1 = p
    BY <1>2, <1>4, <2>1, Zenon
  <2>6. Inserted(d, rows, t) = InsertAt(rows, p, t)
    BY <2>4, <2>5, Zenon
  <2>7. InsertAt(rows, p, t) = SubSeq(rows, 1, q) \o <<t>> \o SubSeq(rows, p, n)
    BY <2>2, InsertAtIs, Zenon
  <2>8. SubSeq(rows, 1, q) = A
    BY <1>8, <2>3, Zenon
  <2>9. SubSeq(rows, p, n) = B
    BY <1>9, <2>1, Zenon
  <2>. QED  BY <1>12, <1>15, <2>6, <2>7, <2>8, <2>9, Zenon
<1>18. ASSUME NEW i \in (m + 1) .. n PROVE new[i + 1] = rows[i]
  <2>1. i - m \in 1 .. (n - m) /\ m + 1 + (i - m) = i + 1 /\ m + (i - m) = i
    BY <1>6
  <2>. QED  BY <1>11, <1>16, <2>1
<1>19. Spot(d, rows, t, m + 1, new)
  <2>1. /\ m + 1 \in 1 .. (Len(rows) + 1) /\ (m + 1) - 1 = m
        /\ new \in Seq(Teams) /\ Len(new) = Len(rows) + 1
    BY <1>6, <1>16
  <2>2. \A i \in 1 .. m : new[i] = rows[i]
    BY <1>6, <1>14, <1>16
  <2>3. new[m + 1] = t
    BY <1>6, <1>14, <1>16
  <2>4. \A i \in (m + 1) .. Len(rows) : new[i + 1] = rows[i] /\ Ahead(d, t, rows[i])
    BY <1>6, <1>7, <1>18
  <2>5. m + 1 > 1 => ~Ahead(d, t, rows[m])
    BY <1>6
  <2>. QED  BY <2>1, <2>2, <2>3, <2>4, <2>5 DEF Spot
<1>. QED  BY <1>17, <1>19

(* An insertion adds its team to the rows and keeps them ranked. *)
LEMMA InsertRanks ==
  ASSUME TypeOK, NEW d \in Devices, NEW rows \in Seq(Teams), NEW t \in Teams,
         NEW new, new = Inserted(d, rows, t), Ranked(d, rows)
  PROVE  /\ new \in Seq(Teams) /\ Len(new) = Len(rows) + 1
         /\ ToSet(new) = ToSet(rows) \cup {t}
         /\ Ranked(d, new)
<1>. PICK n \in Nat : n = Len(rows)
  BY LenProperties
<1>1. PICK p : Spot(d, rows, t, p, new)
  BY InsertedSpot, Zenon
<1>2. /\ p \in 1 .. (n + 1)
      /\ new \in Seq(Teams) /\ Len(new) = n + 1
      /\ \A i \in 1 .. (p - 1) : new[i] = rows[i]
      /\ new[p] = t
      /\ \A i \in p .. n : new[i + 1] = rows[i] /\ Ahead(d, t, rows[i])
      /\ p > 1 => ~Ahead(d, t, rows[p - 1])
  BY <1>1 DEF Spot
<1>3. /\ \A i \in 1 .. n : rows[i] \in Teams
      /\ DOMAIN rows = 1 .. n
  BY LenProperties, ElementOfSeq
<1>4. DOMAIN new = 1 .. (n + 1)
  BY <1>2, LenProperties
<1>5. ToSet(new) = ToSet(rows) \cup {t}
  <2>1. ASSUME NEW i \in 1 .. (n + 1) PROVE new[i] \in ToSet(rows) \cup {t}
    <3>1. CASE i < p
      BY <1>2, <1>3, <3>1 DEF ToSet
    <3>2. CASE i = p
      BY <1>2, <3>2
    <3>3. CASE i > p
      <4>1. i - 1 \in p .. n /\ i - 1 \in 1 .. n /\ (i - 1) + 1 = i
        BY <1>2, <3>3
      <4>2. new[i] = rows[i - 1]
        BY <1>2, <4>1
      <4>. QED  BY <1>3, <4>1, <4>2 DEF ToSet
    <3>. QED  BY <1>2, <3>1, <3>2, <3>3
  <2>2. ASSUME NEW i \in 1 .. n PROVE \E j \in 1 .. (n + 1) : new[j] = rows[i]
    <3>1. CASE i < p
      BY <1>2, <3>1
    <3>2. CASE i >= p
      <4>1. i \in p .. n /\ i + 1 \in 1 .. (n + 1)
        BY <1>2, <3>2
      <4>. QED  BY <1>2, <4>1
    <3>. QED  BY <1>2, <3>1, <3>2
  <2>3. ToSet(new) = {new[i] : i \in 1 .. (n + 1)} /\ ToSet(rows) = {rows[i] : i \in 1 .. n}
    BY <1>3, <1>4, Zenon DEF ToSet
  <2>4. ToSet(rows) \subseteq ToSet(new)
    BY <2>2, <2>3
  <2>5. t \in ToSet(new)
    BY <1>2, <2>3
  <2>6. ToSet(new) \subseteq ToSet(rows) \cup {t}
    BY <2>1, <2>3
  <2>. QED  BY <2>4, <2>5, <2>6
<1>6. \A u \in Teams : Seen(d, u).wins \in Nat /\ Seen(d, u).games \in Nat
  BY SeenTally
<1>7. ASSUME NEW i \in 1 .. Len(new), NEW j \in 1 .. Len(new), i < j,
             \A k \in i .. j : Played(d, new[k])
      PROVE  NotBelow(d, new[i], new[j])
  <2>1. i \in 1 .. (n + 1) /\ j \in 1 .. (n + 1) /\ p \in 1 .. (n + 1)
    BY <1>2
  <2>2. ASSUME NEW a \in 1 .. n, NEW b \in 1 .. n, a < b,
               \A k \in a .. b : Played(d, rows[k])
        PROVE  NotBelow(d, rows[a], rows[b])
    BY <2>2 DEF Ranked
  <2>3. CASE j < p
    <3>1. \A k \in i .. j : new[k] = rows[k]
      BY <1>2, <2>1, <2>3
    <3>2. i \in 1 .. n /\ j \in 1 .. n
      BY <1>7, <2>1, <2>3
    <3>3. \A k \in i .. j : Played(d, rows[k])
      BY <1>7, <3>1
    <3>4. NotBelow(d, rows[i], rows[j])
      BY <1>7, <2>2, <3>2, <3>3
    <3>5. new[i] = rows[i] /\ new[j] = rows[j]
      BY <1>7, <3>1, <3>2
    <3>. QED  BY <3>4, <3>5
  <2>4. CASE j = p
    <3>1. PICK q : q = p - 1
      OBVIOUS
    <3>2. /\ q \in 1 .. n /\ i \in 1 .. n /\ i <= q /\ p > 1
          /\ \A k \in i .. q : k \in 1 .. (p - 1) /\ k \in i .. j
      BY <1>7, <2>1, <2>4, <3>1
    <3>3. \A k \in i .. q : new[k] = rows[k] /\ Played(d, rows[k])
      BY <1>2, <1>7, <3>2
    <3>4. Played(d, t) /\ new[j] = t
      BY <1>2, <1>7, <2>1, <2>4
    <3>5. ~Ahead(d, t, rows[q]) /\ Played(d, rows[q]) /\ rows[q] \in Teams
      BY <1>2, <1>3, <3>1, <3>2, <3>3
    <3>6. NotBelow(d, rows[q], t)
      <4>1. /\ Seen(d, t).wins * Seen(d, rows[q]).games \in Nat
            /\ Seen(d, rows[q]).wins * Seen(d, t).games \in Nat
        BY <1>6, <3>5
      <4>. QED  BY <3>4, <3>5, <4>1 DEF Ahead, NotBelow
    <3>7. new[i] = rows[i] /\ rows[i] \in Teams
      BY <1>3, <3>2, <3>3
    <3>8. CASE i = q
      BY <3>4, <3>6, <3>7, <3>8
    <3>9. CASE i < q
      <4>1. NotBelow(d, rows[i], rows[q])
        BY <2>2, <3>2, <3>3, <3>9
      <4>2. Seen(d, rows[q]).games > 0
        BY <3>5 DEF Played
      <4>3. NotBelow(d, rows[i], t)
        <5>1. PICK ui : ui = rows[i]
          OBVIOUS
        <5>2. PICK uq : uq = rows[q]
          OBVIOUS
        <5>3. /\ Seen(d, ui).wins \in Nat /\ Seen(d, ui).games \in Nat
              /\ Seen(d, uq).wins \in Nat /\ Seen(d, uq).games \in Nat
              /\ Seen(d, t).wins \in Nat /\ Seen(d, t).games \in Nat
          BY <1>6, <3>5, <3>7, <5>1, <5>2
        <5>4. /\ Seen(d, uq).games > 0
              /\ Seen(d, uq).wins * Seen(d, ui).games <= Seen(d, ui).wins * Seen(d, uq).games
              /\ Seen(d, t).wins * Seen(d, uq).games <= Seen(d, uq).wins * Seen(d, t).games
          BY <3>6, <4>1, <4>2, <5>1, <5>2, Zenon DEF NotBelow
        <5>5. Seen(d, t).wins * Seen(d, ui).games <= Seen(d, ui).wins * Seen(d, t).games
          BY <5>3, <5>4, RatioTrans
        <5>. QED  BY <5>1, <5>5, Zenon DEF NotBelow
      <4>. QED  BY <3>4, <3>7, <4>3
    <3>. QED  BY <3>2, <3>8, <3>9
  <2>5. CASE j > p
    <3>1. PICK b : b = j - 1
      OBVIOUS
    <3>2. b \in p .. n /\ b \in 1 .. n /\ b + 1 = j
      BY <2>1, <2>5, <3>1
    <3>3. new[j] = rows[b] /\ Ahead(d, t, rows[b]) /\ rows[b] \in Teams
      BY <1>2, <1>3, <3>2
    <3>4. CASE i = p
      <4>1. NotBelow(d, t, rows[b])
        <5>1. /\ Seen(d, t).wins * Seen(d, rows[b]).games \in Nat
              /\ Seen(d, rows[b]).wins * Seen(d, t).games \in Nat
          BY <1>6, <3>3
        <5>. QED  BY <3>3, <5>1 DEF Ahead, NotBelow
      <4>. QED  BY <1>2, <3>3, <3>4, <4>1
    <3>5. CASE i > p
      <4>1. PICK a : a = i - 1
        OBVIOUS
      <4>2. a \in p .. n /\ a \in 1 .. n /\ a + 1 = i /\ a < b
        BY <1>7, <2>1, <3>1, <3>5, <4>1
      <4>3. new[i] = rows[a]
        BY <1>2, <4>2
      <4>4. ASSUME NEW k \in a .. b PROVE Played(d, rows[k])
        <5>1. k \in p .. n /\ k + 1 \in i .. j
          BY <2>1, <3>2, <4>2, <4>4
        <5>. QED  BY <1>2, <1>7, <5>1
      <4>5. NotBelow(d, rows[a], rows[b])
        BY <2>2, <3>2, <4>2, <4>4
      <4>. QED  BY <3>3, <4>3, <4>5
    <3>6. CASE i < p
      <4>2. i \in 1 .. n /\ i < b
        BY <2>1, <3>2, <3>6
      <4>3. new[i] = rows[i]
        BY <1>2, <2>1, <3>6
      <4>4. ASSUME NEW k \in i .. b PROVE Played(d, rows[k])
        <5>1. CASE k < p
          <6>1. k \in 1 .. (p - 1) /\ k \in i .. j
            BY <2>1, <3>2, <4>4, <5>1
          <6>. QED  BY <1>2, <1>7, <6>1
        <5>2. CASE k >= p
          <6>1. k \in p .. n /\ k + 1 \in i .. j
            BY <2>1, <3>2, <4>4, <5>2
          <6>. QED  BY <1>2, <1>7, <6>1
        <5>. QED  BY <2>1, <3>2, <5>1, <5>2
      <4>5. NotBelow(d, rows[i], rows[b])
        BY <2>2, <3>2, <4>2, <4>4
      <4>. QED  BY <3>3, <4>3, <4>5
    <3>. QED  BY <2>1, <3>4, <3>5, <3>6
  <2>. QED  BY <2>1, <2>3, <2>4, <2>5
<1>. QED  BY <1>2, <1>5, <1>7 DEF Ranked

-----------------------------------------------------------------------------
(* Inserting one team after another *)

(* What listing the teams at each set of positions gives. *)
Ranks(f, d, n) ==
  f = [S \in SUBSET (1 .. n) |->
         IF S = {} THEN <<>> ELSE Inserted(d, f[S \ {Max(S)}], TeamOrder[Max(S)])]

(* There is such a function for the first k positions, whatever k. *)
LEMMA RanksExist ==
  ASSUME NEW d, NEW n \in Nat
  PROVE  \E f : Ranks(f, d, n)
<1>. DEFINE Without == {k \in Nat : ~\E f : Ranks(f, d, k)}
<1>. SUFFICES ASSUME Without # {} PROVE FALSE
  OBVIOUS
<1>1. PICK k \in Without : \A m \in Without : k <= m
  <2>1. Without \in SUBSET Nat
    OBVIOUS
  <2>. HIDE DEF Without
  <2>. QED  BY <2>1, Least
<1>2. CASE k = 0
  <2>1. SUBSET (1 .. 0) = {{}}
    OBVIOUS
  <2>. DEFINE f == [S \in SUBSET (1 .. 0) |-> <<>>]
  <2>2. \A S \in SUBSET (1 .. 0) : S = {}
    BY <2>1
  <2>3. f = [S \in SUBSET (1 .. 0) |->
               IF S = {} THEN <<>> ELSE Inserted(d, f[S \ {Max(S)}], TeamOrder[Max(S)])]
    BY <2>2, Zenon
  <2>4. Ranks(f, d, 0)
    BY <2>3, Zenon DEF Ranks
  <2>. QED  BY <1>2, <2>4, Zenon
<1>3. CASE k # 0
  <2>1. k \in Nat /\ k - 1 \in Nat /\ k - 1 \notin Without
    <3>1. k \in Nat /\ k - 1 \in Nat /\ ~(k <= k - 1)
      BY <1>3
    <3>. QED  BY <1>1, <3>1, Zenon
  <2>2. PICK f0 : Ranks(f0, d, k - 1)
    BY <2>1
  <2>. DEFINE f == [S \in SUBSET (1 .. k) |->
                      IF S = {} THEN <<>>
                      ELSE Inserted(d, f0[S \ {Max(S)}], TeamOrder[Max(S)])]
  <2>3. ASSUME NEW R \in SUBSET (1 .. (k - 1)) PROVE f[R] = f0[R]
    <3>1. R \in SUBSET (1 .. k)
      BY <2>1
    <3>2. f0[R] = IF R = {} THEN <<>> ELSE Inserted(d, f0[R \ {Max(R)}], TeamOrder[Max(R)])
      BY <2>2, Zenon DEF Ranks
    <3>3. f[R] = IF R = {} THEN <<>> ELSE Inserted(d, f0[R \ {Max(R)}], TeamOrder[Max(R)])
      BY <3>1, Zenon
    <3>. QED  BY <3>2, <3>3, Zenon
  <2>4. ASSUME NEW S \in SUBSET (1 .. k), S # {}
        PROVE  f[S \ {Max(S)}] = f0[S \ {Max(S)}]
    BY <2>1, <2>3, <2>4, WithoutLast
  <2>. DEFINE g == [S \in SUBSET (1 .. k) |->
                      IF S = {} THEN <<>>
                      ELSE Inserted(d, f[S \ {Max(S)}], TeamOrder[Max(S)])]
  <2>5. ASSUME NEW S \in SUBSET (1 .. k) PROVE f[S] = g[S]
    <3>1. CASE S = {}
      BY <3>1, Zenon
    <3>2. CASE S # {}
      <4>1. f[S] = Inserted(d, f0[S \ {Max(S)}], TeamOrder[Max(S)])
        BY <3>2, Zenon
      <4>2. g[S] = Inserted(d, f[S \ {Max(S)}], TeamOrder[Max(S)])
        BY <3>2, Zenon
      <4>3. f[S \ {Max(S)}] = f0[S \ {Max(S)}]
        BY <2>4, <3>2, Zenon
      <4>. HIDE DEF f, g
      <4>. QED  BY <4>1, <4>2, <4>3, Zenon
    <3>. QED  BY <3>1, <3>2
  <2>6. f = g
    <3>1. DOMAIN f = SUBSET (1 .. k) /\ DOMAIN g = SUBSET (1 .. k)
      BY Zenon
    <3>2. f = [S \in DOMAIN f |-> f[S]] /\ g = [S \in DOMAIN g |-> g[S]]
      BY Zenon
    <3>. HIDE DEF f, g
    <3>. QED  BY <2>5, <3>1, <3>2, Zenon
  <2>7. Ranks(f, d, k)
    BY <2>6, Zenon DEF Ranks
  <2>. QED  BY <2>7, Zenon
<1>. QED  BY <1>2, <1>3

(* Rankings is what such a function gives at every position. *)
LEMMA RankingsIs ==
  ASSUME NEW d, NEW n \in Nat, n = Len(TeamOrder)
  PROVE  \E f : Ranks(f, d, n) /\ Rankings(d) = f[1 .. n]
<1>. DEFINE f == CHOOSE h : Ranks(h, d, n)
<1>1. DOMAIN TeamOrder = 1 .. n
  BY TeamOrderAssumption, LenProperties
<1>2. Rankings(d) = f[1 .. n]
  BY <1>1 DEF Rankings, FoldLeft, MapThenFoldSet, Ranks
<1>3. Ranks(f, d, n)
  BY RanksExist, Zenon
<1>. QED  BY <1>2, <1>3, Zenon

(* After the first k teams, the rows are those, ranked. *)
RankedTo(d, f, k) ==
  /\ f[1 .. k] \in Seq(Teams) /\ Len(f[1 .. k]) = k
  /\ ToSet(f[1 .. k]) = {TeamOrder[i] : i \in 1 .. k}
  /\ Ranked(d, f[1 .. k])

LEMMA PrefixesRanked ==
  ASSUME TypeOK, NEW d \in Devices, NEW n \in Nat, n = Len(TeamOrder),
         NEW f, Ranks(f, d, n)
  PROVE  \A k \in 0 .. n : RankedTo(d, f, k)
<1>0. \A S \in SUBSET (1 .. n) :
        f[S] = IF S = {} THEN <<>> ELSE Inserted(d, f[S \ {Max(S)}], TeamOrder[Max(S)])
  BY Zenon DEF Ranks
<1>. DEFINE Bad == {k \in 0 .. n : ~RankedTo(d, f, k)}
<1>. SUFFICES ASSUME Bad # {} PROVE FALSE
  OBVIOUS
<1>1. PICK k \in Bad : \A m \in Bad : k <= m
  <2>1. Bad \in SUBSET Nat
    OBVIOUS
  <2>. HIDE DEF Bad
  <2>. QED  BY <2>1, Least
<1>2. RankedTo(d, f, 0)
  <2>1. 1 .. 0 = {}
    OBVIOUS
  <2>2. f[1 .. 0] = <<>>
    BY <1>0, <2>1
  <2>3. <<>> \in Seq(Teams) /\ Len(<<>>) = 0 /\ DOMAIN <<>> = {}
    OBVIOUS
  <2>4. ToSet(<<>>) = {TeamOrder[i] : i \in 1 .. 0}
    BY <2>1, <2>3 DEF ToSet
  <2>5. Ranked(d, <<>>)
    BY <2>1, <2>3 DEF Ranked
  <2>. QED  BY <2>2, <2>3, <2>4, <2>5 DEF RankedTo
<1>3. k \in 1 .. n /\ k - 1 \in 0 .. n /\ k - 1 \notin Bad
  <2>1. k # 0
    BY <1>2
  <2>2. k \in 1 .. n /\ k - 1 \in 0 .. n /\ ~(k <= k - 1)
    BY <2>1
  <2>. QED  BY <1>1, <2>2, Zenon
<1>4. RankedTo(d, f, k - 1)
  BY <1>3
<1>5. PICK rows : rows = f[1 .. (k - 1)]
  OBVIOUS
<1>6. PICK new : new = f[1 .. k]
  OBVIOUS
<1>7. Max(1 .. k) = k /\ (1 .. k) \ {k} = 1 .. (k - 1) /\ 1 .. k # {}
      /\ 1 .. k \in SUBSET (1 .. n)
  <2>1. k \in 1 .. k /\ 1 .. k \subseteq 1 .. n /\ 1 .. k \subseteq 0 .. n
    BY <1>3
  <2>2. Max(1 .. k) \in 1 .. k /\ k <= Max(1 .. k)
    BY <2>1, GreatestUpTo
  <2>3. (1 .. k) \ {k} = 1 .. (k - 1)
    <3>1. ASSUME NEW i \in 1 .. k, i # k PROVE i \in 1 .. (k - 1)
      BY <1>3, <3>1
    <3>2. ASSUME NEW i \in 1 .. (k - 1) PROVE i \in 1 .. k /\ i # k
      BY <1>3
    <3>. QED  BY <3>1, <3>2
  <2>. QED  BY <1>3, <2>1, <2>2, <2>3
<1>8. PICK t : t = TeamOrder[k]
  OBVIOUS
<1>9. new = Inserted(d, rows, t)
  <2>1. f[1 .. k] = Inserted(d, f[(1 .. k) \ {Max(1 .. k)}], TeamOrder[Max(1 .. k)])
    BY <1>0, <1>7, Zenon
  <2>. QED  BY <1>5, <1>6, <1>7, <1>8, <2>1, Zenon
<1>10. t \in Teams
  BY <1>3, <1>8, TeamOrderAssumption, ElementOfSeq
<1>11. /\ rows \in Seq(Teams) /\ Len(rows) = k - 1 /\ Ranked(d, rows)
       /\ ToSet(rows) = {TeamOrder[i] : i \in 1 .. (k - 1)}
  BY <1>4, <1>5, Zenon DEF RankedTo
<1>12. /\ new \in Seq(Teams) /\ Len(new) = Len(rows) + 1
       /\ ToSet(new) = ToSet(rows) \cup {t} /\ Ranked(d, new)
  BY <1>9, <1>10, <1>11, InsertRanks
<1>13. {TeamOrder[i] : i \in 1 .. (k - 1)} \cup {TeamOrder[k]} = {TeamOrder[i] : i \in 1 .. k}
  <2>1. k \in 1 .. k
    BY <1>3
  <2>. QED  BY <1>7, <2>1, Zenon
<1>14. Len(new) = k
  BY <1>3, <1>11, <1>12
<1>15. RankedTo(d, f, k)
  BY <1>6, <1>8, <1>11, <1>12, <1>13, <1>14, Zenon DEF RankedTo
<1>. QED  BY <1>15

(* Whatever reports are under way on whichever devices, the listing has    *)
(* every team once, and the teams that have played stand in the order of   *)
(* their percentages, as far as no team that has not played parts them.    *)
THEOREM RanksBetweenGames == Spec => []RankedBetweenGames
<1>1. ASSUME TypeOK PROVE RankedBetweenGames
  <2>1. SUFFICES ASSUME NEW d \in Devices, NEW rows, rows = Rankings(d)
        PROVE  /\ Len(rows) = Len(TeamOrder) /\ ToSet(rows) = Teams
               /\ \A i, j \in DOMAIN rows :
                    (i < j /\ \A k \in i .. j : Seen(d, rows[k]).games > 0) =>
                      Seen(d, rows[j]).wins * Seen(d, rows[i]).games
                        <= Seen(d, rows[i]).wins * Seen(d, rows[j]).games
    BY <2>1, Zenon DEF RankedBetweenGames
  <2>2. PICK n \in Nat : n = Len(TeamOrder)
    BY TeamOrderAssumption, LenProperties
  <2>3. PICK f : Ranks(f, d, n) /\ Rankings(d) = f[1 .. n]
    BY <2>2, RankingsIs
  <2>4. RankedTo(d, f, n)
    BY <1>1, <2>2, <2>3, PrefixesRanked
  <2>5. rows \in Seq(Teams) /\ Len(rows) = n /\ Ranked(d, rows)
        /\ ToSet(rows) = {TeamOrder[i] : i \in 1 .. n}
    BY <2>1, <2>3, <2>4, Zenon DEF RankedTo
  <2>6. DOMAIN rows = 1 .. Len(rows) /\ DOMAIN TeamOrder = 1 .. n
    BY <2>2, <2>5, TeamOrderAssumption, LenProperties
  <2>7. ToSet(rows) = Teams
    BY <2>5, <2>6, TeamOrderAssumption DEF ToSet
  <2>. QED  BY <2>2, <2>5, <2>6, <2>7 DEF Ranked, Played, NotBelow
<1>2. Inv => TypeOK
  BY DEF Inv
<1>. QED  BY Invariance, <1>1, <1>2, PTL

-----------------------------------------------------------------
(* What a report waits for.                                                *)

(* A report that reads still waits for a player, so that the group will be *)
(* left; one that is committed is on the server or safe on its phone,      *)
(* whatever happens to the app; and one that is alone on a phone whose app *)
(* is not killed is never lost to a trap.  With the fairness of the reads, *)
(* of the main queue and of the client, ReportReaches rests on this.       *)
OnItsWay ==
  \A r \in Reports :
    /\ report[r].stage = "reading" => report[r].waiting \cap Players # {}
    /\ report[r].stage = "committed" =>
         r \in arrived \/ \E b \in Sent(ReportedBy[r]) : b.report = r
    /\ Alone(r) /\ ReportedBy[r] \notin Killable => report[r].stage # "lost"

(* A step that changes one call, and no batch. *)
LEMMA CallOnItsWay ==
  ASSUME Inv, OnItsWay, NEW r \in Reports, NEW c,
         report' = [report EXCEPT ![r] = c],
         UNCHANGED <<record, result, outbox, sent, arrived>>,
         c.stage \in {"reading", "notified"},
         c.stage = "reading" => c.waiting \cap Players # {}
  PROVE  OnItsWay'
<1>1. report'[r] = c /\ \A q \in Reports \ {r} : report'[q] = report[q]
  BY DEF Inv, TypeOK
<1>2. \A d \in Devices : Sent(d)' = Sent(d)
  BY DEF Sent
<1>3. \A q \in Reports : Alone(q)' = Alone(q)
  BY DEF Alone
<1>. QED  BY <1>1, <1>2, <1>3, ReportAssumption DEF OnItsWay

LEMMA ReportOnItsWay ==
  ASSUME Inv, OnItsWay, NEW r \in Reports, Report(r)
  PROVE  OnItsWay'
<1>1. PICK win \in BOOLEAN :
        report' = [report EXCEPT ![r] =
          [stage   |-> IF Involved[GameOf[r]] = {} THEN "notified" ELSE "reading",
           waiting |-> TeamsOf(r) \cup Involved[GameOf[r]],
           homeWin |-> win,
           puts    |-> NoPuts]]
  BY DEF Report
<1>2. PICK c : c = [stage   |-> IF Involved[GameOf[r]] = {} THEN "notified" ELSE "reading",
                    waiting |-> TeamsOf(r) \cup Involved[GameOf[r]],
                    homeWin |-> win,
                    puts    |-> NoPuts]
  OBVIOUS
<1>3. /\ c.stage = IF Involved[GameOf[r]] = {} THEN "notified" ELSE "reading"
      /\ c.waiting = TeamsOf(r) \cup Involved[GameOf[r]]
  BY <1>2
<1>4. c.stage = "reading" => c.waiting \cap Players # {}
  BY <1>3, ReportAssumption
<1>5. report' = [report EXCEPT ![r] = c] /\ UNCHANGED <<record, result, outbox, sent, arrived>>
  BY <1>1, <1>2 DEF Report
<1>. QED  BY <1>3, <1>4, <1>5, CallOnItsWay

LEMMA ReadTeamOnItsWay ==
  ASSUME Inv, OnItsWay, NEW r \in Reports, NEW t \in Teams, ReadTeam(r, t)
  PROVE  OnItsWay'
<1>1. report[r] \in Call
  BY DEF Inv, TypeOK
<1>2. PICK c : c = [report[r] EXCEPT !.waiting = @ \ {t}, !.puts = Putting(r, t)]
  OBVIOUS
<1>3. c.stage = report[r].stage /\ c.waiting = report[r].waiting \ {t}
  BY <1>1, <1>2 DEF Call
<1>4. report' = [report EXCEPT ![r] = c] /\ UNCHANGED <<record, result, outbox, sent, arrived>>
  BY <1>2 DEF ReadTeam, Inv, TypeOK
<1>5. c.stage \in {"reading", "notified"}
  BY <1>3 DEF ReadTeam
<1>6. c.stage = "reading" => c.waiting \cap Players # {}
  <2>1. t \notin Players
    BY ReportAssumption
  <2>2. c.waiting \cap Players = report[r].waiting \cap Players
    BY <1>3, <2>1
  <2>. QED  BY <1>3, <2>2 DEF OnItsWay
<1>. QED  BY <1>4, <1>5, <1>6, CallOnItsWay

LEMMA ReadPlayerOnItsWay ==
  ASSUME Inv, OnItsWay, NEW r \in Reports, NEW p \in Players, ReadPlayer(r, p)
  PROVE  OnItsWay'
<1>1. report[r] \in Call
  BY DEF Inv, TypeOK
<1>2. PICK s : s = IF report[r].waiting \cap Players = {p} THEN "notified" ELSE report[r].stage
  OBVIOUS
<1>3. PICK c : c = [report[r] EXCEPT !.waiting = @ \ {p}, !.puts = Putting(r, p), !.stage = s]
  OBVIOUS
<1>4. c.stage = s /\ c.waiting = report[r].waiting \ {p}
  BY <1>1, <1>3 DEF Call
<1>5. report' = [report EXCEPT ![r] = c] /\ UNCHANGED <<record, result, outbox, sent, arrived>>
  BY <1>2, <1>3 DEF ReadPlayer, Inv, TypeOK
<1>6. c.stage \in {"reading", "notified"}
  BY <1>2, <1>4 DEF ReadPlayer
<1>7. c.stage = "reading" => c.waiting \cap Players # {}
  <2>1. p \in report[r].waiting \cap Players
    BY DEF ReadPlayer
  <2>. QED  BY <1>2, <1>4, <2>1
<1>. QED  BY <1>5, <1>6, <1>7, CallOnItsWay

(* A trap or a kill takes what was being read with it, and nothing else. *)
LEMMA StopOnItsWay ==
  ASSUME Inv, OnItsWay, NEW d \in Devices, Stop(d),
         UNCHANGED <<record, result, outbox, sent, arrived>>,
         \A r \in Reports : ReportedBy[r] = d /\ Alone(r) /\ d \notin Killable =>
                              report[r].stage = "committed"
  PROVE  OnItsWay'
<1>1. ASSUME NEW r \in Reports
      PROVE  \/ report'[r] = report[r]
             \/ report'[r].stage = "committed" /\ report[r].stage = "committed"
             \/ report'[r].stage = "lost" /\ (Alone(r) => d \in Killable) /\ ReportedBy[r] = d
  <2>1. report[r] \in Call
    BY DEF Inv, TypeOK
  <2>2. report'[r] = IF ReportedBy[r] # d \/ report[r].stage \in {"idle", "lost"} THEN report[r]
                     ELSE [report[r] EXCEPT !.waiting = {},
                              !.stage = IF @ = "committed" THEN @ ELSE "lost"]
    BY DEF Stop
  <2>. QED  BY <2>1, <2>2 DEF Call
<1>2. \A e \in Devices : Sent(e)' = Sent(e)
  BY DEF Sent
<1>3. \A q \in Reports : Alone(q)' = Alone(q)
  BY DEF Alone
<1>. QED  BY <1>1, <1>2, <1>3, ReportAssumption DEF OnItsWay

LEMMA CommitOnItsWay ==
  ASSUME Inv, OnItsWay, NEW r \in Reports, Commit(r)
  PROVE  OnItsWay'
<1>1. PICK d : d = ReportedBy[r]
  OBVIOUS
<1>2. PICK b : b = [report |-> r, homeWin |-> report[r].homeWin, puts |-> report[r].puts]
  OBVIOUS
<1>3. d \in Devices /\ b.report = r /\ outbox[d] \in Seq(Batch)
  BY <1>1, <1>2, ReportAssumption DEF Inv, TypeOK
<1>4. b \in Batch
  BY <1>2 DEF Inv, TypeOK, Call, Batch
<1>5. outbox'[d] = Append(outbox[d], b) /\ \A e \in Devices \ {d} : outbox'[e] = outbox[e]
  BY <1>1, <1>2, <1>3 DEF Inv, TypeOK, Commit
<1>6. PICK n \in Nat : n = Len(outbox[d]) /\ DOMAIN outbox[d] = 1 .. n
  BY <1>3, LenProperties
<1>7. /\ DOMAIN Append(outbox[d], b) = 1 .. (n + 1)
      /\ \A i \in 1 .. n : Append(outbox[d], b)[i] = outbox[d][i]
      /\ Append(outbox[d], b)[n + 1] = b
  BY <1>3, <1>4, <1>6, AppendProperties, LenProperties
<1>8. Sent(d)' = Sent(d) \cup {b} /\ \A e \in Devices \ {d} : Sent(e)' = Sent(e)
  BY <1>5, <1>6, <1>7 DEF Sent
<1>9. report'[r].stage = "committed" /\ \A q \in Reports \ {r} : report'[q] = report[q]
  BY DEF Inv, TypeOK, Commit, Call
<1>10. arrived' = arrived /\ \A q \in Reports : Alone(q)' = Alone(q)
  BY DEF Commit, Alone
<1>11. \A e \in Devices : Sent(e) \subseteq Sent(e)'
  BY <1>8
<1>12. \E x \in Sent(ReportedBy[r])' : x.report = r
  BY <1>1, <1>3, <1>8
<1>. QED  BY <1>9, <1>10, <1>11, <1>12, ReportAssumption DEF OnItsWay

(* The client: what leaves an outbox has arrived. *)
LEMMA ClientOnItsWay ==
  ASSUME OnItsWay, report' = report, arrived \subseteq arrived',
         \A e \in Devices : \A b \in Sent(e) : b \in Sent(e)' \/ b.report \in arrived'
  PROVE  OnItsWay'
<1>1. \A q \in Reports : Alone(q)' = Alone(q)
  BY DEF Alone
<1>2. ASSUME NEW r \in Reports, report[r].stage = "committed"
      PROVE  r \in arrived' \/ \E b \in Sent(ReportedBy[r])' : b.report = r
  BY <1>2, ReportAssumption DEF OnItsWay
<1>. QED  BY <1>1, <1>2 DEF OnItsWay

LEMMA TailOnItsWay ==
  ASSUME Inv, OnItsWay, report' = report, arrived \subseteq arrived',
         NEW d \in Devices, outbox[d] # <<>>, outbox' = [outbox EXCEPT ![d] = Tail(@)],
         outbox[d][1].report \in arrived'
  PROVE  OnItsWay'
<1>1. /\ Len(outbox[d]) \in Nat /\ Len(outbox[d]) >= 1
      /\ DOMAIN outbox[d] = 1 .. Len(outbox[d])
      /\ DOMAIN outbox'[d] = 1 .. Len(outbox[d]) - 1
      /\ \A j \in 1 .. Len(outbox[d]) - 1 : outbox'[d][j] = outbox[d][j + 1]
      /\ \A e \in Devices \ {d} : outbox'[e] = outbox[e]
  BY TailPositions DEF Inv
<1>2. ASSUME NEW i \in DOMAIN outbox[d]
      PROVE  outbox[d][i] \in Sent(d)' \/ outbox[d][i].report \in arrived'
  <2>1. CASE i = 1
    BY <2>1
  <2>2. CASE i # 1
    <3>1. i - 1 \in 1 .. Len(outbox[d]) - 1 /\ (i - 1) + 1 = i
      BY <1>1, <2>2
    <3>2. outbox'[d][i - 1] = outbox[d][i]
      BY <1>1, <3>1
    <3>. QED  BY <1>1, <3>1, <3>2 DEF Sent
  <2>. QED  BY <2>1, <2>2
<1>3. ASSUME NEW e \in Devices, NEW b \in Sent(e)
      PROVE  b \in Sent(e)' \/ b.report \in arrived'
  <2>1. CASE e = d
    BY <1>2, <2>1 DEF Sent
  <2>2. CASE e # d
    BY <1>1, <2>2 DEF Sent
  <2>. QED  BY <2>1, <2>2
<1>. QED  BY <1>3, ClientOnItsWay

LEMMA OnItsWayNext == CountInv /\ OnItsWay /\ [Next]_vars => OnItsWay'
<1>. SUFFICES ASSUME CountInv, OnItsWay, [Next]_vars PROVE OnItsWay'
  OBVIOUS
<1>. USE ReportAssumption
<1>0. Inv /\ TypeOK /\ Traced
  BY DEF CountInv, Inv
<1>1. ASSUME NEW r \in Reports, Report(r) PROVE OnItsWay'
  BY <1>0, <1>1, ReportOnItsWay
<1>2. ASSUME NEW r \in Reports, NEW t \in Teams, ReadTeam(r, t) PROVE OnItsWay'
  BY <1>0, <1>2, ReadTeamOnItsWay
<1>3. ASSUME NEW r \in Reports, NEW t \in Teams, ReadTeamTraps(r, t) PROVE OnItsWay'
  <2>1. PICK d \in Devices : d = ReportedBy[r]
    OBVIOUS
  <2>2. /\ Stop(d) /\ UNCHANGED <<record, result, outbox, sent, arrived>>
        /\ report[r].stage = "committed"
    BY <1>3, <2>1 DEF ReadTeamTraps
  <2>3. \A q \in Reports : ReportedBy[q] = d /\ Alone(q) /\ d \notin Killable =>
                             report[q].stage = "committed"
    BY <2>1, <2>2 DEF Alone
  <2>. QED  BY <1>0, <2>2, <2>3, StopOnItsWay
<1>4. ASSUME NEW r \in Reports, NEW p \in Players, ReadPlayer(r, p) PROVE OnItsWay'
  BY <1>0, <1>4, ReadPlayerOnItsWay
<1>5. ASSUME NEW r \in Reports, Commit(r) PROVE OnItsWay'
  BY <1>0, <1>5, CommitOnItsWay
<1>6. ASSUME NEW d \in Devices, Deliver(d) PROVE OnItsWay'
  <2>1. Head(outbox[d]) = outbox[d][1]
    BY <1>0, <1>6, TailPositions DEF Deliver
  <2>. QED  BY <1>0, <1>6, <2>1, TailOnItsWay DEF Deliver, Arrive
<1>7. ASSUME NEW d \in Devices, Kill(d) PROVE OnItsWay'
  BY <1>0, <1>7, StopOnItsWay DEF Kill
<1>8. ASSUME NEW d \in Devices, Reach(d) PROVE OnItsWay'
  <2>1. report' = report /\ arrived \subseteq arrived' /\ \A e \in Devices : Sent(e)' = Sent(e)
    BY <1>8 DEF Reach, Arrive, Sent
  <2>. QED  BY <2>1, ClientOnItsWay
<1>9. ASSUME NEW d \in Devices, Acknowledge(d) PROVE OnItsWay'
  <2>1. sent[d] \in Nat /\ sent[d] > 0 /\ sent[d] <= Len(outbox[d])
    BY <1>0, <1>9, Lengths DEF Acknowledge
  <2>2. outbox[d] # <<>> /\ 1 \in 1 .. sent[d]
    BY <2>1
  <2>3. outbox[d][1].report \in arrived
    BY <1>0, <2>2 DEF Traced
  <2>. QED  BY <1>0, <1>9, <2>2, <2>3, TailOnItsWay DEF Acknowledge
<1>10. ASSUME NEW d \in Devices, Reconnect(d) PROVE OnItsWay'
  <2>1. report' = report /\ arrived' = arrived /\ \A e \in Devices : Sent(e)' = Sent(e)
    BY <1>10 DEF Reconnect, Sent
  <2>. QED  BY <2>1, ClientOnItsWay
<1>11. CASE UNCHANGED vars
  <2>1. report' = report /\ arrived' = arrived /\ \A e \in Devices : Sent(e)' = Sent(e)
    BY <1>11 DEF vars, Sent
  <2>. QED  BY <2>1, ClientOnItsWay
<1>. QED
  BY <1>1, <1>2, <1>3, <1>4, <1>5, <1>6, <1>7, <1>8, <1>9, <1>10, <1>11 DEF Next, Read

(* No report waits for something that cannot come any more: the safety     *)
(* half of ReportReaches, for any reports, devices and players.            *)
THEOREM ReportsOnTheirWay == Spec => []OnItsWay
<1>1. Init => OnItsWay
  BY DEF Init, OnItsWay
<1>. QED  BY InitCounts, NextCounts, OnItsWayNext, <1>1, PTL DEF Spec
=============================================================================
