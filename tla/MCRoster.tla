------------------------------ MODULE MCRoster ------------------------------
(* A Brain and a Contacts screen, two names, two phones and two ids: the    *)
(* contact a thread has in mind, and another that may come to be instead;   *)
(* two notes, of which one fits.  Names, phones and notes are only compared *)
(* with each other.                                                         *)
EXTENDS Roster, TLC

MCInitialRules == {"block"}
MCVoiceRules == {"vip"}
MCEditorRules == {"ignore"}
MCSymmetry == Permutations(Names) \cup Permutations(Phones) \cup Permutations(Notes)

\* Nothing is looked at beyond the end of a late migration: nobody is in the middle of
\* one then, and what it dropped stays away.
RaceIsOver == raced /\ version = 2 /\ \A t \in Threads : at[t] = "closed"
MCNext == ~ RaceIsOver /\ Next
MCSpec == Init /\ [][MCNext]_vars
=============================================================================
