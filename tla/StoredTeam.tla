------------------------------ MODULE StoredTeam ------------------------------
(***************************************************************************)
(* What the screens of one phone may rely on about the team it stores in   *)
(* UserDefaults: abstracts Session.tla, which is shown to implement it,    *)
(* and is the session PlayTab.tla is composed with.                        *)
(***************************************************************************)
CONSTANTS
  Teams,
  NoTeam,    \* the empty string stored as udTeamID
  NotStored  \* udTeamID has never been stored on this phone

VARIABLES
  inside,  \* the tabs are shown
  udTeam

TeamIDs == Teams \cup {NoTeam}

Init == inside = FALSE /\ udTeam = NotStored

(* A user comes in; a new one comes without a team. *)
Enter == inside' = TRUE /\ udTeam' \in {udTeam, NoTeam}

(* A team is stored, at any time, whatever is shown. *)
Store == udTeam' \in TeamIDs /\ UNCHANGED inside

(* A user leaves, and takes the team along unless the sign-out throws. *)
Leave == inside /\ inside' = FALSE /\ udTeam' \in {udTeam, NoTeam}

(* The app ends. *)
End == inside' = FALSE /\ UNCHANGED udTeam

Next == Enter \/ Store \/ Leave \/ End

Spec == Init /\ [][Next]_<<inside, udTeam>>
=============================================================================
