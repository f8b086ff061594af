------------------------------ MODULE BrowseMap ------------------------------
(***************************************************************************)
(* The map of the Browse screen (BrowseViewController.swift): one listener *)
(* on the whole games collection, the annotations it puts on the map, and  *)
(* annotationDict, which remembers one annotation per game id.             *)
(*                                                                         *)
(* The collection is GameBoard.tla, which Games.tla implements, with the   *)
(* one change of a document GameBoard does not speak of: newGame's merge   *)
(* of the members.  The listener is told of documents one at a time; what  *)
(* happened to a document since it was last told of it arrives as one      *)
(* change, so changes may be told one by one or several together.          *)
(***************************************************************************)
EXTENDS Naturals

CONSTANTS Games, Teams, NoTeam,
          MaxPins   \* bound: no document changes while a game has that many pins

ASSUME PinsAssumption == MaxPins \in Nat \ {0}

VARIABLES
  status, home, guest, named, winner,   \* the board
  merged,    \* games whose playersInvolved has received the home team's members
  visible,   \* the screen is on and its listener attached
  told,      \* games the listener has been told of (their next change is "modified")
  unseen,    \* those whose document has changed since
  pins,      \* pins[g]: annotations of g on the map
  dict       \* dict[g]: the annotation remembered for g, on the map or no more

board   == <<status, home, guest, named, winner>>
mapVars == <<visible, told, unseen, pins, dict>>
vars    == <<board, merged, mapVars>>

Board == INSTANCE GameBoard

Init ==
  /\ Board!Init
  /\ merged = {}
  /\ visible = FALSE /\ told = {} /\ unseen = {}
  /\ pins = [g \in Games |-> 0]
  /\ dict = [g \in Games |-> "none"]

-----------------------------------------------------------------------------
(* The collection moves. *)
Quiet == \A g \in Games : pins[g] < MaxPins

Content(g) == <<status[g], home[g], guest[g], g \in named, winner[g]>>

BoardMoves ==
  /\ Quiet
  /\ Board!Next
  /\ unseen' = unseen \cup {g \in told : Content(g)' # Content(g)}
  /\ UNCHANGED <<merged, visible, told, pins, dict>>

(* The members are merged after the id is written, through the same queue. *)
Merge(g) ==
  /\ Quiet
  /\ g \in named \ merged
  /\ merged' = merged \cup {g}
  /\ unseen' = unseen \cup ({g} \cap told)
  /\ UNCHANGED <<board, visible, told, pins, dict>>

-----------------------------------------------------------------------------
(* The screen *)

(* Mutant of Appear: the annotations of the last time are left. *)
AppearKeeps ==
  /\ ~visible /\ visible' = TRUE
  /\ UNCHANGED <<board, merged, told, unseen, pins, dict>>

(* viewWillAppear: the map is cleared, annotationDict is not. *)
Appear ==
  /\ ~visible /\ visible' = TRUE
  /\ pins' = [g \in Games |-> 0]
  /\ dict' = [g \in Games |-> IF dict[g] = "onmap" THEN "offmap" ELSE dict[g]]
  /\ UNCHANGED <<board, merged, told, unseen>>

(* viewWillDisappear: the listener is removed, the annotations stay. *)
Disappear ==
  /\ visible /\ visible' = FALSE
  /\ told' = {} /\ unseen' = {}
  /\ UNCHANGED <<board, merged, pins, dict>>

(* dropGamePin and buildAnnotation. *)
DropPin(g) ==
  /\ pins' = [pins EXCEPT ![g] = @ + 1]
  /\ dict' = [dict EXCEPT ![g] = "onmap"]

(* Mutant of RemovePin: the remembered annotation is taken to be on the map. *)
RemovePinAlways(g) ==
  /\ pins' = [pins EXCEPT ![g] = @ - 1]
  /\ dict' = [dict EXCEPT ![g] = "none"]

(* removePin: only the remembered annotation leaves the map. *)
RemovePin(g) ==
  /\ pins' = [pins EXCEPT ![g] = IF dict[g] = "onmap" THEN @ - 1 ELSE @]
  /\ dict' = [dict EXCEPT ![g] = "none"]

(* Mutant of Added: a pin is dropped whether the id is known or not. *)
AddedUnnamed(g) ==
  /\ visible /\ g \notin told /\ status[g] # "absent"
  /\ told' = told \cup {g}
  /\ IF status[g] = "listing" THEN DropPin(g) ELSE UNCHANGED <<pins, dict>>
  /\ UNCHANGED <<board, merged, visible, unseen>>

Added(g) ==
  /\ visible /\ g \notin told /\ status[g] # "absent"
  /\ told' = told \cup {g}
  /\ IF g \in named /\ status[g] = "listing" THEN DropPin(g) ELSE UNCHANGED <<pins, dict>>
  /\ UNCHANGED <<board, merged, visible, unseen>>

(* Mutants of Modified: a pin is only reposted for a game that had one; a   *)
(* remembered pin is deleted and never reposted.                           *)
ModifiedKnown(g) ==
  /\ visible /\ g \in unseen /\ unseen' = unseen \ {g}
  /\ IF status[g] = "listing" /\ dict[g] # "none" THEN DropPin(g) ELSE UNCHANGED <<pins, dict>>
  /\ UNCHANGED <<board, merged, visible, told>>

ModifiedOnce(g) ==
  /\ visible /\ g \in unseen /\ unseen' = unseen \ {g}
  /\ IF dict[g] = "none" THEN DropPin(g) ELSE RemovePin(g)
  /\ UNCHANGED <<board, merged, visible, told>>

(* A listing gets one more pin; a game started or withdrawn loses the one  *)
(* that is remembered; a completed game is left alone.                     *)
Modified(g) ==
  /\ visible /\ g \in unseen
  /\ unseen' = unseen \ {g}
  /\ \/ status[g] = "listing" /\ DropPin(g)
     \/ status[g] \in {"deleted", "active"} /\ dict[g] # "none" /\ RemovePin(g)
     \/ /\ status[g] \in {"deleted", "active"} => dict[g] = "none"
        /\ status[g] # "listing"
        /\ UNCHANGED <<pins, dict>>
  /\ UNCHANGED <<board, merged, visible, told>>

Next == \/ BoardMoves
        \/ Appear
        \/ Disappear
        \/ \E g \in Games : Merge(g) \/ Added(g) \/ Modified(g)

Spec == Init /\ [][Next]_vars

(* A listener is told of every document and of every change. *)
FairSpec == Spec /\ \A g \in Games : WF_vars(Added(g)) /\ WF_vars(Modified(g))
-----------------------------------------------------------------------------
(* Properties *)

(* Pins are counted and every game has at most one remembered annotation. *)
TypeOK ==
  /\ status \in [Games -> {"absent", "listing", "active", "completed", "deleted"}]
  /\ home \in [Games -> Teams \cup {NoTeam}] /\ guest \in [Games -> Teams \cup {NoTeam}]
  /\ named \subseteq Games /\ merged \subseteq Games
  /\ winner \in [Games -> {"none", "home", "guest"}]
  /\ visible \in BOOLEAN
  /\ told \subseteq Games /\ unseen \subseteq told
  /\ pins \in [Games -> 0 .. MaxPins]
  /\ dict \in [Games -> {"none", "onmap", "offmap"}]

(* The code drops a pin for every change of a listing, checking for an id  *)
(* only the first time: no pin leads to the SingleGame screen of a game    *)
(* without an id, because nothing changes before the id is written.        *)
PinHasID == \A g \in Games : pins[g] > 0 => g \in named

(* Pins survive the listener that dropped them: while the screen is on,    *)
(* every pin belongs to a game its present listener follows.               *)
PinsWatched == visible => \A g \in Games : pins[g] > 0 => g \in told

(* Once the listener has said all it knows, every listing is on the map,   *)
(* whatever annotations were remembered, replaced or cleared before.       *)
ListedIsPinned ==
  \A g \in Games :
    /\ visible /\ g \in told \ unseen
    /\ status[g] = "listing" /\ g \in named
    => pins[g] > 0

(* The id of a game is written after the listener may have been told of    *)
(* it: a listing that stays on offer while the screen is on is shown.      *)
ListingShown ==
  \A g \in Games :
    <>[](visible /\ status[g] = "listing" /\ g \in named) => <>[](pins[g] > 0)

(* BrowseViewController.swift line 97: "Find old pin, delete, and repost   *)
(* new updated pin" (refuted: the old pin of a changed listing stays).     *)
OnePin == \A g \in Games : pins[g] <= 1
=============================================================================
