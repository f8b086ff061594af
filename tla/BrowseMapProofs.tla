--------------------------- MODULE BrowseMapProofs ---------------------------
(***************************************************************************)
(* Proofs about BrowseMap.tla, for any games, teams and bound on pins.     *)
(*                                                                         *)
(* The three properties of the map rest on one invariant: what the present *)
(* listener has been told (Followed), what it may still have to tell       *)
(* (Pending) and what is pinned (Pinned).                                  *)
(***************************************************************************)
EXTENDS BrowseMap, TLAPS

(* Nothing is told while the screen is off, and a document told of exists; *)
(* a pin on the open map belongs to a followed game.                       *)
Followed ==
  /\ ~visible => told = {}
  /\ \A g \in Games : g \in told => status[g] # "absent"
  /\ PinsWatched

(* A change not yet told is of a named game: before it has its id, a       *)
(* document is only ever given one.                                        *)
Pending ==
  /\ unseen \subseteq named
  /\ \A g \in Games : g \notin named => status[g] \in {"absent", "listing"}
  /\ named \cap {g \in Games : status[g] = "absent"} = {}

(* There is room for the pin a change may drop; pins have ids; a listing   *)
(* whose changes have all been told is pinned, and what is remembered as   *)
(* on the map is there.                                                    *)
Pinned ==
  /\ \A g \in unseen : pins[g] < MaxPins
  /\ \A g \in Games : dict[g] = "onmap" => pins[g] > 0
  /\ PinHasID
  /\ ListedIsPinned

Inv == TypeOK /\ Followed /\ Pending /\ Pinned

-----------------------------------------------------------------------------
LEMMA InitInv == Init => Inv
<1> SUFFICES ASSUME Init PROVE Inv
  OBVIOUS
<1> USE DEF Init, Board!Init
<1>1. TypeOK
  <2>1. visible \in BOOLEAN
    BY Zenon
  <2>2. pins \in [Games -> 0 .. MaxPins]
    BY PinsAssumption
  <2> QED
    BY <2>1, <2>2 DEF TypeOK
<1>2. Followed /\ Pending
  BY DEF Followed, Pending, PinsWatched
<1>3. Pinned
  BY DEF Pinned, PinHasID, ListedIsPinned
<1> QED
  BY <1>1, <1>2, <1>3 DEF Inv

(* What a step of the board means to the map: documents stay, ids stay,    *)
(* and a document that was there only changes if it has its id by then.    *)
BoardTyped ==
  /\ status \in [Games -> {"absent", "listing", "active", "completed", "deleted"}]
  /\ home \in [Games -> Teams \cup {NoTeam}] /\ guest \in [Games -> Teams \cup {NoTeam}]
  /\ named \subseteq Games
  /\ winner \in [Games -> {"none", "home", "guest"}]

BoardChange ==
  /\ named \subseteq named'
  /\ \A g \in Games :
       /\ status[g] # "absent" => status'[g] # "absent"
       /\ g \in named' => status'[g] # "absent"
       /\ g \notin named' => status'[g] \in {"absent", "listing"}
       /\ status[g] # "absent" /\ g \notin named' => Content(g)' = Content(g)

LEMMA BoardStep ==
  ASSUME BoardTyped, Pending, Board!Next
  PROVE  BoardTyped' /\ BoardChange
<1> USE DEF BoardTyped, BoardChange, Pending, Content, Board!TeamIDs
<1>1. PICK g \in Games :
         \/ \E t \in Board!TeamIDs : Board!Post(g, t)
         \/ Board!Name(g)
         \/ \E t \in Teams : Board!Seat(g, t)
         \/ Board!Start(g)
         \/ Board!Withdraw(g)
         \/ \E side \in {"home", "guest"} : Board!Record(g, side)
  BY DEF Board!Next
<1>2. ASSUME NEW t \in Board!TeamIDs, Board!Post(g, t)
      PROVE  BoardTyped' /\ BoardChange
  BY <1>2 DEF Board!Post
<1>3. CASE Board!Name(g)
  BY <1>3 DEF Board!Name
<1>4. ASSUME NEW t \in Teams, Board!Seat(g, t)
      PROVE  BoardTyped' /\ BoardChange
  BY <1>4 DEF Board!Seat
<1>5. CASE Board!Start(g)
  BY <1>5 DEF Board!Start
<1>6. CASE Board!Withdraw(g)
  BY <1>6 DEF Board!Withdraw
<1>7. ASSUME NEW side \in {"home", "guest"}, Board!Record(g, side)
      PROVE  BoardTyped' /\ BoardChange
  BY <1>7 DEF Board!Record
<1> QED
  BY <1>1, <1>2, <1>3, <1>4, <1>5, <1>6, <1>7

-----------------------------------------------------------------------------
(* The board moves: what changed is told later, and there is room for it.  *)
LEMMA BoardMovesKeeps ==
  ASSUME Inv, BoardMoves
  PROVE  Inv'
<1>1. BoardTyped' /\ BoardChange
  BY BoardStep DEF Inv, TypeOK, BoardTyped, BoardMoves
<1>2. unseen \subseteq unseen' /\ unseen' \subseteq told
  BY DEF BoardMoves, Inv, TypeOK
<1>3. \A g \in told \ unseen' :
        status'[g] = status[g] /\ (g \in named' <=> g \in named)
  BY DEF BoardMoves, Inv, TypeOK, Content
<1>4. TypeOK'
  BY <1>1, <1>2 DEF BoardMoves, Inv, TypeOK, BoardTyped
<1>5. Followed'
  BY <1>1 DEF BoardMoves, Inv, Followed, PinsWatched, BoardChange
<1>6. Pending'
  <2>1. unseen' \subseteq named'
    BY <1>1 DEF BoardMoves, Inv, TypeOK, Followed, Pending, BoardChange
  <2> QED
    BY <1>1, <2>1 DEF Pending, BoardChange
<1>7. Pinned'
  <2>1. \A g \in unseen' : pins'[g] < MaxPins
    BY <1>2 DEF BoardMoves, Quiet, Inv, TypeOK
  <2>2. PinHasID'
    BY <1>1 DEF BoardMoves, Inv, Pinned, PinHasID, BoardChange
  <2>3. ListedIsPinned'
    BY <1>2, <1>3 DEF BoardMoves, Inv, Pinned, ListedIsPinned
  <2> QED
    BY <2>1, <2>2, <2>3 DEF BoardMoves, Inv, Pinned
<1> QED
  BY <1>4, <1>5, <1>6, <1>7 DEF Inv

LEMMA MergeKeeps ==
  ASSUME Inv, NEW g \in Games, Merge(g)
  PROVE  Inv'
<1> USE DEF Inv, Merge, board
<1>1. TypeOK'
  BY DEF TypeOK
<1>2. Followed' /\ Pending'
  BY DEF Followed, Pending, PinsWatched
<1>3. Pinned'
  BY DEF TypeOK, Pinned, Quiet, PinHasID, ListedIsPinned
<1> QED
  BY <1>1, <1>2, <1>3

LEMMA AppearKeepsInv ==
  ASSUME Inv, Appear
  PROVE  Inv'
<1> USE DEF Inv, Appear, board
<1>1. TypeOK'
  BY PinsAssumption DEF TypeOK
<1>2. Followed' /\ Pending'
  BY DEF TypeOK, Followed, Pending, PinsWatched
<1>3. Pinned'
  BY DEF TypeOK, Followed, Pinned, PinHasID, ListedIsPinned
<1> QED
  BY <1>1, <1>2, <1>3

LEMMA DisappearKeeps ==
  ASSUME Inv, Disappear
  PROVE  Inv'
<1> USE DEF Inv, Disappear, board
<1>1. TypeOK'
  BY DEF TypeOK
<1>2. Followed' /\ Pending'
  BY DEF Followed, Pending, PinsWatched
<1>3. Pinned'
  BY DEF Pinned, PinHasID, ListedIsPinned
<1> QED
  BY <1>1, <1>2, <1>3

(* What dropping and removing a pin do to the counts. *)
LEMMA DropPinCounts ==
  ASSUME TypeOK, NEW g \in Games, pins[g] < MaxPins, DropPin(g)
  PROVE  /\ pins' \in [Games -> 0 .. MaxPins]
         /\ dict' \in [Games -> {"none", "onmap", "offmap"}]
         /\ pins'[g] > 0 /\ dict'[g] = "onmap"
         /\ \A h \in Games \ {g} : pins'[h] = pins[h] /\ dict'[h] = dict[h]
  BY PinsAssumption DEF TypeOK, DropPin

LEMMA RemovePinCounts ==
  ASSUME TypeOK, Pinned, NEW g \in Games, RemovePin(g)
  PROVE  /\ pins' \in [Games -> 0 .. MaxPins]
         /\ dict' \in [Games -> {"none", "onmap", "offmap"}]
         /\ pins'[g] <= pins[g] /\ dict'[g] = "none"
         /\ \A h \in Games \ {g} : pins'[h] = pins[h] /\ dict'[h] = dict[h]
  BY PinsAssumption DEF TypeOK, Pinned, RemovePin

LEMMA AddedKeeps ==
  ASSUME Inv, NEW g \in Games, Added(g)
  PROVE  Inv'
<1>1. pins[g] = 0
  BY DEF Inv, TypeOK, Followed, PinsWatched, Added
<1>2. CASE g \in named /\ status[g] = "listing"
  <2>1. DropPin(g)
    BY <1>2 DEF Added
  <2>2. /\ pins' \in [Games -> 0 .. MaxPins]
        /\ dict' \in [Games -> {"none", "onmap", "offmap"}]
        /\ pins'[g] > 0 /\ dict'[g] = "onmap"
        /\ \A h \in Games \ {g} : pins'[h] = pins[h] /\ dict'[h] = dict[h]
    BY <1>1, <2>1, DropPinCounts, PinsAssumption DEF Inv
  <2>3. TypeOK'
    BY <2>2 DEF Inv, TypeOK, Added, board
  <2>4. Followed' /\ Pending'
    BY <2>2 DEF Inv, Followed, Pending, PinsWatched, Added, board
  <2>5. Pinned'
    BY <1>2, <2>2 DEF Inv, TypeOK, Pinned, PinHasID, ListedIsPinned, Added, board
  <2> QED
    BY <2>3, <2>4, <2>5 DEF Inv
<1>3. CASE ~(g \in named /\ status[g] = "listing")
  <2>1. UNCHANGED <<pins, dict>>
    BY <1>3 DEF Added
  <2>2. TypeOK'
    BY <2>1 DEF Inv, TypeOK, Added, board
  <2>3. Followed' /\ Pending'
    BY <2>1 DEF Inv, Followed, Pending, PinsWatched, Added, board
  <2>4. Pinned'
    BY <1>3, <2>1 DEF Inv, Pinned, PinHasID, ListedIsPinned, Added, board
  <2> QED
    BY <2>2, <2>3, <2>4 DEF Inv
<1> QED
  BY <1>2, <1>3

LEMMA ModifiedKeeps ==
  ASSUME Inv, NEW g \in Games, Modified(g)
  PROVE  Inv'
<1>1. g \in unseen /\ g \in told /\ g \in named /\ pins[g] < MaxPins
  BY DEF Inv, TypeOK, Pending, Pinned, Modified
<1>2. /\ pins' \in [Games -> 0 .. MaxPins]
      /\ dict' \in [Games -> {"none", "onmap", "offmap"}]
      /\ dict'[g] = "onmap" => pins'[g] > 0
      /\ status[g] = "listing" => pins'[g] > 0
      /\ \A h \in Games \ {g} : pins'[h] = pins[h] /\ dict'[h] = dict[h]
  <2>1. CASE DropPin(g)
    BY <1>1, <2>1, DropPinCounts DEF Inv
  <2>2. CASE status[g] # "listing" /\ RemovePin(g)
    BY <2>2, RemovePinCounts DEF Inv
  <2>3. CASE status[g] # "listing" /\ UNCHANGED <<pins, dict>>
    BY <2>3 DEF Inv, TypeOK, Pinned
  <2> QED
    BY <2>1, <2>2, <2>3 DEF Modified
<1>3. TypeOK'
  BY <1>2 DEF Inv, TypeOK, Modified, board
<1>4. Followed' /\ Pending'
  BY <1>1, <1>2 DEF Inv, Followed, Pending, PinsWatched, Modified, board
<1>5. Pinned'
  BY <1>1, <1>2 DEF Inv, TypeOK, Pinned, PinHasID, ListedIsPinned, Modified, board
<1> QED
  BY <1>3, <1>4, <1>5 DEF Inv

LEMMA StutterKeeps ==
  ASSUME Inv, UNCHANGED vars
  PROVE  Inv'
<1> USE DEF Inv, vars, board, mapVars
<1>1. TypeOK'
  BY DEF TypeOK
<1>2. Followed' /\ Pending'
  BY DEF Followed, Pending, PinsWatched
<1>3. Pinned'
  BY DEF Pinned, PinHasID, ListedIsPinned
<1> QED
  BY <1>1, <1>2, <1>3

LEMMA Invariance == Spec => []Inv
<1>1. Inv /\ [Next]_vars => Inv'
  BY BoardMovesKeeps, MergeKeeps, AppearKeepsInv, DisappearKeeps, AddedKeeps, ModifiedKeeps,
     StutterKeeps DEF Next
<1> QED
  BY InitInv, <1>1, PTL DEF Spec

-----------------------------------------------------------------------------
(* The map's variables keep their types; in particular a pin is never      *)
(* removed that is not there.                                              *)
THEOREM TypeCorrect == Spec => []TypeOK
<1>1. Inv => TypeOK
  BY DEF Inv
<1> QED
  BY Invariance, <1>1, PTL

(* No pin leads to a game without an id, though the code only looks at the *)
(* id the first time it is told of a game.                                 *)
THEOREM PinsHaveIDs == Spec => []PinHasID
<1>1. Inv => PinHasID
  BY DEF Inv, Pinned
<1> QED
  BY Invariance, <1>1, PTL

(* No pin outlives its listener on an open map. *)
THEOREM PinsFollowed == Spec => []PinsWatched
<1>1. Inv => PinsWatched
  BY DEF Inv, Followed
<1> QED
  BY Invariance, <1>1, PTL

(* A listing the listener is up to date with is on the map. *)
THEOREM ListingsPinned == Spec => []ListedIsPinned
<1>1. Inv => ListedIsPinned
  BY DEF Inv, Pinned
<1> QED
  BY Invariance, <1>1, PTL
=============================================================================
