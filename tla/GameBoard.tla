------------------------------ MODULE GameBoard ------------------------------
(***************************************************************************)
(* What the games collection promises its readers, whatever the devices    *)
(* and the network do: the life of one game document, seen as the server   *)
(* sees it.  Games.tla is the detailed protocol (devices, write queues,    *)
(* pending callbacks) and is shown to implement this module.               *)
(*                                                                         *)
(* The statuses and the two places of the teams array are those of         *)
(* dbGame.swift; how a guest came to be seated, and in what order writes   *)
(* reached the server, is left open here.                                  *)
(***************************************************************************)

CONSTANTS
  Games,     \* game documents that may be created
  Teams,     \* team ids
  NoTeam     \* the empty string in a place of the teams array

VARIABLES
  status,   \* status[g]
  home,     \* home[g] and guest[g]: the two places of the teams array
  guest,
  named,    \* the games whose document knows its own id
  winner    \* winner[g]: the side the two scores speak for

vars == <<status, home, guest, named, winner>>

TeamIDs == Teams \cup {NoTeam}

Init ==
  /\ status = [g \in Games |-> "absent"]
  /\ home   = [g \in Games |-> NoTeam]
  /\ guest  = [g \in Games |-> NoTeam]
  /\ named  = {}
  /\ winner = [g \in Games |-> "none"]

(* A team posts a listing: it becomes the home team for good. *)
Post(g, t) ==
  /\ status[g] = "absent"
  /\ status' = [status EXCEPT ![g] = "listing"]
  /\ home' = [home EXCEPT ![g] = t]
  /\ UNCHANGED <<guest, named, winner>>

(* The document learns its own id.  Nobody else moves before that. *)
Name(g) ==
  /\ status[g] # "absent"
  /\ named' = named \cup {g}
  /\ UNCHANGED <<status, home, guest, winner>>

(* A team other than the home team takes the guest place. *)
Seat(g, t) ==
  /\ g \in named
  /\ t # home[g]
  /\ guest' = [guest EXCEPT ![g] = t]
  /\ UNCHANGED <<status, home, named, winner>>

(* The game starts: somebody must be there to play. *)
Start(g) ==
  /\ g \in named /\ guest[g] # NoTeam
  /\ status' = [status EXCEPT ![g] = "active"]
  /\ UNCHANGED <<home, guest, named, winner>>

(* The listing is withdrawn. *)
Withdraw(g) ==
  /\ g \in named
  /\ status' = [status EXCEPT ![g] = "deleted"]
  /\ UNCHANGED <<home, guest, named, winner>>

(* The result is recorded, for exactly one of the two teams. *)
Record(g, side) ==
  /\ g \in named /\ guest[g] # NoTeam
  /\ status' = [status EXCEPT ![g] = "completed"]
  /\ winner' = [winner EXCEPT ![g] = side]
  /\ UNCHANGED <<home, guest, named>>

Next == \E g \in Games :
          \/ \E t \in TeamIDs : Post(g, t)
          \/ Name(g)
          \/ \E t \in Teams : Seat(g, t)
          \/ Start(g)
          \/ Withdraw(g)
          \/ \E side \in {"home", "guest"} : Record(g, side)

Spec == Init /\ [][Next]_vars
=============================================================================
