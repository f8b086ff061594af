----------------------------- MODULE CompleteGame -----------------------------
(***************************************************************************)
(* completeGame (dbGame.swift): one report of a result reads the records   *)
(* of both teams and of every player involved, adds the game to each, and  *)
(* commits everything in one batch when a DispatchGroup is empty.          *)
(*                                                                         *)
(* The group counts the players before their reads are issued, but a team  *)
(* only while its read is being handled.  The commit is therefore put on   *)
(* the main queue when the last player has been read, whether or not the   *)
(* teams have: a team read later is added if it is handled before the      *)
(* commit runs and traps if after, for a committed batch takes no updates. *)
(*                                                                         *)
(* Games.tla has the same step as CommitResult, without the records.       *)
(***************************************************************************)
EXTENDS Naturals, Sequences, FiniteSets

CONSTANTS
  Devices,
  Reports,     \* calls of completeGame that may be made
  ReportedBy,  \* ReportedBy[r]: the device the call runs on
  Games,
  GameOf,      \* GameOf[r]: the game reported
  Teams, Home, Guest,   \* Home[g] and Guest[g]: the two teams of a game
  Players, Involved,    \* Involved[g]: playersInvolved
  TeamOf,      \* TeamOf[p]: the team in p's document when it is read
  NotPut,      \* a document the batch does not update
  Killable,    \* devices whose app may be killed
  Flaky        \* devices whose stream to the server may break

Docs == Teams \cup Players

ASSUME ReportAssumption ==
  /\ ReportedBy \in [Reports -> Devices]
  /\ GameOf \in [Reports -> Games]
  /\ Home \in [Games -> Teams] /\ Guest \in [Games -> Teams]
  /\ \A g \in Games : Home[g] # Guest[g]
  /\ Involved \in [Games -> SUBSET Players]
  /\ Teams \cap Players = {}
  /\ Killable \subseteq Devices /\ Flaky \subseteq Devices
  /\ NotPut \notin [games : Nat, wins : Nat, losses : Nat]

VARIABLES
  record,   \* record[doc]: the totals in a team's or player's document
  result,   \* result[g]: "none" while the game is active, or the winning side
  outbox,   \* outbox[d]: batches of d not yet acknowledged, oldest first
  sent,     \* sent[d]: how many of them the server has applied all the same
  report,   \* report[r]: the call, its unread documents and its batch
  arrived   \* reports whose batch has reached the server

vars == <<record, result, outbox, sent, report, arrived>>

Tally == [games : Nat, wins : Nat, losses : Nat]
Puts  == [Docs -> Tally \cup {NotPut}]
Batch == [report : Reports, homeWin : BOOLEAN, puts : Puts]

Stages == {"idle", "reading", "notified", "committed", "lost"}
Call   == [stage : Stages, waiting : SUBSET Docs, homeWin : BOOLEAN, puts : Puts]

NoPuts == [doc \in Docs |-> NotPut]

TeamsOf(r) == {Home[GameOf[r]], Guest[GameOf[r]]}

Init ==
  /\ record  = [doc \in Docs |-> [games |-> 0, wins |-> 0, losses |-> 0]]
  /\ result  = [g \in Games |-> "none"]
  /\ outbox  = [d \in Devices |-> <<>>]
  /\ sent    = [d \in Devices |-> 0]
  /\ report  = [r \in Reports |-> [stage |-> "idle", waiting |-> {}, homeWin |-> FALSE,
                                   puts |-> NoPuts]]
  /\ arrived = {}

-----------------------------------------------------------------------------
(* What a device reads: the server's record under its own unsent batches. *)
Seen(d, doc) ==
  LET own == {i \in DOMAIN outbox[d] : outbox[d][i].puts[doc] # NotPut}
  IN  IF own = {} THEN record[doc]
      ELSE outbox[d][CHOOSE i \in own : \A j \in own : j <= i].puts[doc]

SeenActive(d, g) ==
  /\ result[g] = "none"
  /\ \A i \in DOMAIN outbox[d] : GameOf[outbox[d][i].report] # g

(* Mutants of Credit: a win leaves a loss behind; the games are left out. *)
CreditElse(t, won) == [games |-> t.games + 1, wins |-> IF won THEN t.wins + 1 ELSE t.wins,
                       losses |-> t.losses + 1]
CreditOnly(t, won) == [wins   |-> IF won THEN t.wins + 1 ELSE t.wins,
                       losses |-> IF won THEN t.losses ELSE t.losses + 1]

(* One more game in a record. *)
Credit(t, won) == [games  |-> t.games + 1,
                   wins   |-> IF won THEN t.wins + 1 ELSE t.wins,
                   losses |-> IF won THEN t.losses ELSE t.losses + 1]

(* A team is credited by its place in the teams array; a player with the   *)
(* home team if the document read says so, and with the guests if not.     *)
Won(r, doc) ==
  LET home == Home[GameOf[r]]
  IN  IF doc = home \/ (doc \in Players /\ TeamOf[doc] = home)
      THEN report[r].homeWin ELSE ~report[r].homeWin

-----------------------------------------------------------------------------
(* Mutant of Report: the players are counted like the teams. *)
ReportUncounted(r) ==
  /\ report[r].stage = "idle" /\ SeenActive(ReportedBy[r], GameOf[r])
  /\ \E win \in BOOLEAN :
       report' = [report EXCEPT ![r] =
         [stage |-> "notified", waiting |-> TeamsOf(r) \cup Involved[GameOf[r]],
          homeWin |-> win, puts |-> NoPuts]]
  /\ UNCHANGED <<record, result, outbox, sent, arrived>>

(* Win or Loss is clicked on a game the device sees active.  All reads are *)
(* issued at once; without players the group is empty from the start.      *)
Report(r) ==
  /\ report[r].stage = "idle"
  /\ SeenActive(ReportedBy[r], GameOf[r])
  /\ \E win \in BOOLEAN :
       report' = [report EXCEPT ![r] =
         [stage   |-> IF Involved[GameOf[r]] = {} THEN "notified" ELSE "reading",
          waiting |-> TeamsOf(r) \cup Involved[GameOf[r]],
          homeWin |-> win,
          puts    |-> NoPuts]]
  /\ UNCHANGED <<record, result, outbox, sent, arrived>>

Putting(r, doc) ==
  [report[r].puts EXCEPT ![doc] = Credit(Seen(ReportedBy[r], doc), Won(r, doc))]

(* A team's record is read while the batch still takes updates. *)
ReadTeam(r, t) ==
  /\ t \in report[r].waiting \cap Teams
  /\ report[r].stage \in {"reading", "notified"}
  /\ report' = [report EXCEPT ![r].waiting = @ \ {t}, ![r].puts = Putting(r, t)]
  /\ UNCHANGED <<record, result, outbox, sent, arrived>>

(* Mutant of ReadPlayer: the group is not left. *)
ReadPlayerStays(r, p) ==
  /\ p \in report[r].waiting \cap Players
  /\ report[r].stage \in {"reading", "notified"}
  /\ report' = [report EXCEPT ![r].waiting = @ \ {p}, ![r].puts = Putting(r, p)]
  /\ UNCHANGED <<record, result, outbox, sent, arrived>>

(* A player's record is read; the last one empties the group. *)
ReadPlayer(r, p) ==
  /\ p \in report[r].waiting \cap Players
  /\ report[r].stage \in {"reading", "notified"}
  /\ report' = [report EXCEPT
       ![r].waiting = @ \ {p},
       ![r].puts = Putting(r, p),
       ![r].stage = IF report[r].waiting \cap Players = {p} THEN "notified" ELSE @]
  /\ UNCHANGED <<record, result, outbox, sent, arrived>>

(* The group's block runs on the main queue: the batch is committed, that *)
(* is, stored on the device and seen there at once.                       *)
Commit(r) ==
  /\ report[r].stage = "notified"
  /\ outbox' = [outbox EXCEPT ![ReportedBy[r]] =
       Append(@, [report |-> r, homeWin |-> report[r].homeWin, puts |-> report[r].puts])]
  /\ report' = [report EXCEPT ![r].stage = "committed"]
  /\ UNCHANGED <<record, result, sent, arrived>>

(* The app stops: reads and uncommitted batches are gone, the outbox is not. *)
Stop(d) ==
  report' = [r \in Reports |->
    IF ReportedBy[r] # d \/ report[r].stage \in {"idle", "lost"} THEN report[r]
    ELSE [report[r] EXCEPT !.waiting = {},
                           !.stage = IF @ = "committed" THEN @ ELSE "lost"]]

(* A team is read after the commit: the update of the batch traps. *)
ReadTeamTraps(r, t) ==
  /\ t \in report[r].waiting \cap Teams
  /\ report[r].stage = "committed"
  /\ Stop(ReportedBy[r])
  /\ UNCHANGED <<record, result, outbox, sent, arrived>>

Kill(d) ==
  /\ d \in Killable
  /\ \E r \in Reports : ReportedBy[r] = d /\ report[r].waiting # {}
  /\ Stop(d)
  /\ UNCHANGED <<record, result, outbox, sent, arrived>>

(* The server applies the whole of a batch. *)
Arrive(b) ==
  /\ record' = [doc \in Docs |-> IF b.puts[doc] = NotPut THEN record[doc] ELSE b.puts[doc]]
  /\ result' = [result EXCEPT ![GameOf[b.report]] = IF b.homeWin THEN "home" ELSE "guest"]
  /\ arrived' = arrived \cup {b.report}

(* Mutant of Deliver: the newest batch is sent first. *)
DeliverNewest(d) ==
  /\ sent[d] = 0 /\ outbox[d] # <<>>
  /\ Arrive(outbox[d][Len(outbox[d])])
  /\ outbox' = [outbox EXCEPT ![d] = SubSeq(@, 1, Len(@) - 1)]
  /\ UNCHANGED <<sent, report>>

(* The oldest batch is sent, applied and acknowledged. *)
Deliver(d) ==
  /\ sent[d] = 0 /\ outbox[d] # <<>>
  /\ Arrive(Head(outbox[d]))
  /\ outbox' = [outbox EXCEPT ![d] = Tail(@)]
  /\ UNCHANGED <<sent, report>>

(* Where the stream may break, acknowledgements lag behind (Games.tla), and *)
(* the batches that were not acknowledged are sent once more after it has.  *)
Reach(d) ==
  /\ d \in Flaky /\ sent[d] < Len(outbox[d])
  /\ Arrive(outbox[d][sent[d] + 1])
  /\ sent' = [sent EXCEPT ![d] = @ + 1]
  /\ UNCHANGED <<outbox, report>>

Acknowledge(d) ==
  /\ sent[d] > 0
  /\ outbox' = [outbox EXCEPT ![d] = Tail(@)]
  /\ sent' = [sent EXCEPT ![d] = @ - 1]
  /\ UNCHANGED <<record, result, report, arrived>>

Reconnect(d) ==
  /\ sent[d] > 0
  /\ sent' = [sent EXCEPT ![d] = 0]
  /\ UNCHANGED <<record, result, outbox, report, arrived>>

-----------------------------------------------------------------------------
Read(r) == \/ \E t \in Teams : ReadTeam(r, t) \/ ReadTeamTraps(r, t)
           \/ \E p \in Players : ReadPlayer(r, p)

Next == \/ \E r \in Reports : Report(r) \/ Read(r) \/ Commit(r)
        \/ \E d \in Devices : Kill(d)
        \/ \E d \in Devices : Deliver(d) \/ Reach(d) \/ Acknowledge(d) \/ Reconnect(d)

Spec == Init /\ [][Next]_vars

(* Every read is answered, the main queue runs its blocks, the client sends *)
(* what it holds, and a batch sent again and again is acknowledged in the   *)
(* end; nobody is obliged to report or to kill the app.                     *)
Fairness ==
  /\ \A r \in Reports : WF_vars(Commit(r)) /\ WF_vars(Read(r))
  /\ \A d \in Devices : WF_vars(Deliver(d)) /\ SF_vars(Acknowledge(d))

FairSpec == Spec /\ Fairness
-----------------------------------------------------------------------------
(* Properties *)

(* Records, batches and calls are well formed, and the server is ahead of  *)
(* no device by more than its batches.                                     *)
TypeOK ==
  /\ record \in [Docs -> Tally]
  /\ result \in [Games -> {"none", "home", "guest"}]
  /\ outbox \in [Devices -> Seq(Batch)]
  /\ sent \in [Devices -> Nat] /\ \A d \in Devices : sent[d] <= Len(outbox[d])
  /\ report \in [Reports -> Call]
  /\ arrived \subseteq Reports

Sent(d) == {outbox[d][i] : i \in DOMAIN outbox[d]}

(* The three totals are written together, each from a read that may be old *)
(* by then: in every record the games are the wins and the losses.         *)
Balanced == \A doc \in Docs : record[doc].games = record[doc].wins + record[doc].losses

(* The commit runs when the group is empty, in whatever order the reads    *)
(* are answered: no batch leaves without every player involved.  Once a    *)
(* game has a result, no record of theirs is without a game, whatever was  *)
(* overwritten or applied again.                                           *)
PlayersCounted ==
  /\ \A d \in Devices : \A b \in Sent(d) :
       \A p \in Involved[GameOf[b.report]] : b.puts[p] # NotPut
  /\ \A g \in Games : result[g] # "none" =>
       \A p \in Involved[g] : record[p].games > 0

(* Totals are written as numbers, not as increments, by several devices    *)
(* and about several games: updates may be lost, but no record ever counts *)
(* more games than reports about them have reached the server.             *)
Concerning(doc) ==
  {r \in arrived : doc \in TeamsOf(r) \cup Involved[GameOf[r]]}

NeverOvercounted ==
  \A doc \in Docs : record[doc].games <= Cardinality(Concerning(doc))

(* A team handled too late traps, but only once the batch is safe on the   *)
(* device: a report that is alone on its device reaches the server.        *)
Alone(r) == \A q \in Reports : ReportedBy[q] = ReportedBy[r] => q = r

ReportReaches ==
  \A r \in {q \in Reports : Alone(q)} : (report[r].stage # "idle") ~> (r \in arrived)

(* dbGame.swift line 204: "Update records for both teams" (refuted: the    *)
(* group does not count the reads of the teams).                           *)
BothTeamsCounted ==
  \A d \in Devices : \A b \in Sent(d) :
    \A t \in TeamsOf(b.report) : b.puts[t] # NotPut
=============================================================================
