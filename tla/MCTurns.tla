------------------------------- MODULE MCTurns -------------------------------
(* Two parts, which share nothing.  "turns": three turns, to stage, stage   *)
(* again and confirm, and a call; of the registries one where every skill   *)
(* can be described, as the tests build them, and the one the daemon and    *)
(* the console really have, where the privileged trio (the delegation)      *)
(* cannot.  "mail": two turns of the email skills, which may overlap, on a  *)
(* mailbox of two messages that another client uses as well.                *)
EXTENDS EmailTurns

CONSTANTS roster, delegate, alice

VARIABLES part

MCTrios == {roster, delegate}
MCPrivileged == {delegate}
MCRegistries == {{roster, delegate}, {roster}}

MCContacts == {<<>>, <<"none", alice>>}

MCInit ==
    /\ Init /\ M!Init
    /\ \/ part = "turns" /\ contacts = <<>>
       \/ part = "mail" /\ host = "console" /\ declared = MCTrios

MCNext ==
    \/ part = "turns" /\ Next /\ UNCHANGED <<part, mailVars>>
    \/ part = "mail" /\ M!Next /\ UNCHANGED <<part, vars>>

MCSpec == MCInit /\ [][MCNext]_<<vars, part, mailVars>> /\ Fairness
=============================================================================
